---- MODULE Spec2Model ----
(***************************************************************************)
(* Device tree, subscription manager and registry wiring of the           *)
(* flockwave/skybrush server (flockwave/server/model/devices.py and        *)
(* flockwave/server/registries/uavs.py).                                   *)
(*                                                                         *)
(* Strings are sequences of one-character strings, so that path parsing    *)
(* (split) and formatting (join) are computed as the code computes them.   *)
(***************************************************************************)
EXTENDS Integers, Sequences, FiniteSets, Bags, TLC

(***************************************************************************)
(* Bounds                                                                  *)
(***************************************************************************)
\* how many times one client may call subscribe() on one node between two
\* forced removals
MaxK == 2
\* how many subscribe() calls may be outstanding over the whole tree
MaxTotal == 2

(***************************************************************************)
(* The objects of the model                                                *)
(***************************************************************************)
Clients == {"A", "B"}

\* node objects: the root of the tree and the pre-built subtrees of the UAVs
Nodes == {"root", "uav1", "gps1", "lat1", "uav2", "uav3"}

\* UAV objects; uav1 and uav3 are different objects with the same id
UAVs == {"u1", "u2", "u3"}

UAVId(u) == IF u = "u2" THEN <<"b">> ELSE <<"a">>

UAVDeviceTreeNode(u) ==
    CASE u = "u1" -> "uav1"
      [] u = "u2" -> "uav2"
      [] OTHER    -> "uav3"

UAVIds == {UAVId(u) : u \in UAVs}

\* the class of each node object: RootNode, UAVNode, DeviceNode, ChannelNode
NodeType(n) ==
    CASE n = "root" -> "root"
      [] n = "gps1" -> "device"
      [] n = "lat1" -> "channel"
      [] OTHER      -> "uav"

UAVRegistries == {"R1", "R2"}
ClientRegistries == {"CR1"}

NoEntries == [i \in {} |-> "u1"]

EmptyCounter == [c \in {} |-> 0]

NoSubscribers == [isNone |-> TRUE, counter |-> EmptyCounter]

(***************************************************************************)
(* DeviceTreePath                                                          *)
(***************************************************************************)
Slash == "/"

RECURSIVE Split(_)
\* str.split(u"/")
Split(s) ==
    IF s = <<>> THEN << <<>> >>
    ELSE LET rest == Split(Tail(s))
         IN  IF Head(s) = Slash
             THEN << <<>> >> \o rest
             ELSE << <<Head(s)>> \o Head(rest) >> \o Tail(rest)

RECURSIVE Join_NoSeparator(_)
\* a join that concatenates the parts without the separator
Join_NoSeparator(parts) ==
    IF parts = <<>> THEN <<>>
    ELSE parts[1] \o Join_NoSeparator(Tail(parts))

RECURSIVE Join(_)
\* u"/".join(parts)
Join(parts) ==
    IF parts = <<>> THEN <<>>
    ELSE IF Len(parts) = 1 THEN parts[1]
    ELSE parts[1] \o <<Slash>> \o Join(Tail(parts))

\* a setter that keeps the empty part that a trailing slash leaves behind
ParsePath_NoStrip(value) ==
    LET parts == Split(value)
    IN  IF parts[1] # <<>>
        THEN [err |-> "ValueError", parts |-> <<>>]
        ELSE IF \E i \in 2..Len(parts) : parts[i] = <<>>
        THEN [err |-> "ValueError", parts |-> <<>>]
        ELSE [err |-> "ok", parts |-> parts]

\* DeviceTreePath.path setter: the parts of the path, or a ValueError
ParsePath(value) ==
    LET parts  == Split(value)
        popped == IF parts[Len(parts)] = <<>>
                  THEN SubSeq(parts, 1, Len(parts) - 1)
                  ELSE parts
    IN  IF parts[1] # <<>>
        THEN [err |-> "ValueError", parts |-> <<>>]
        ELSE IF \E i \in 2..Len(popped) : popped[i] = <<>>
        THEN [err |-> "ValueError", parts |-> <<>>]
        ELSE [err |-> "ok", parts |-> popped]

\* DeviceTreePath.iterparts: islice(self._parts, 1, None)
IterParts(parts) == IF Len(parts) <= 1 THEN <<>> ELSE SubSeq(parts, 2, Len(parts))

\* DeviceTreePath.path getter, __unicode__
PathString(parts) == Join(parts)

(***************************************************************************)
(* State                                                                   *)
(***************************************************************************)
VARIABLES
    children,          \* node -> its children dict, in insertion order
    hasChildren,       \* the nodes that have a children attribute
    subscribers,       \* node -> its _subscribers (None or a Counter)
    uav_registry,      \* DeviceTree._uav_registry
    added_conn,        \* senders for which _on_uav_added is connected
    removed_conn,      \* senders for which _on_uav_removed is connected
    entries,           \* UAV registry -> its _entries dict
    client_registry,   \* DeviceTreeSubscriptionManager._client_registry
    client_conn,       \* senders for which _on_client_removed is connected
    subCalls,          \* history: successful subscribe calls per node, client
    unsubCalls,        \* history: successful plain unsubscribe calls
    last,              \* the last operation and how it ended
    path_value,        \* the string that a DeviceTreePath is constructed from
    path_obj,          \* the DeviceTreePath constructed from path_value
    path_again,        \* the DeviceTreePath constructed from unicode(path_obj)
    traversal,         \* the pairs that the last traverse_dfs call yielded
    path_clone,        \* the copy of path_obj that list_subscriptions walked with
    trips,             \* cascade_demo: self._trips, UAV id -> Trip object (0: no key)
    trip_status,       \* cascade_demo: Trip object -> its status ("none": not created)
    command_queue,     \* cascade_demo: the UAV ids in the memory channel
    upload_pc,         \* cascade_demo: where the manage_trips task stands
    upload_trip,       \* cascade_demo: the local variable trip of upload_trip_to_uav
    send_calls,        \* history: Trip object -> number of send_command calls for it
    responded,         \* history: the Trip objects whose UAV was in the response
    cancelled_new,     \* history: the Trip objects cancelled in status NEW
    pool_size,         \* udp: the total tokens of the capacity limiter
    udp_loop,          \* udp: whether the receive loop and its nursery run
    udp_handlers,      \* udp: handler task -> where it stands
    limit_borrowers,   \* udp: the tasks that hold a token of the limiter
    limit_waiting,     \* udp: the tasks parked in the limiter, oldest first
    flock_sent,        \* flockctrl: what the wireless communicator was asked to send
    mission_show,      \* flockctrl: the show that a mission was generated from
    max_altitude,      \* flockctrl: max_altitude of the generated mission
    max_distance       \* flockctrl: max_distance of the generated mission

vars == <<children, hasChildren, subscribers, uav_registry, added_conn,
          removed_conn, entries, client_registry, client_conn,
          subCalls, unsubCalls, last, path_value, path_obj, path_again,
          traversal, path_clone, trips, trip_status, command_queue, upload_pc,
          upload_trip, send_calls, responded, cancelled_new, pool_size,
          udp_loop, udp_handlers, limit_borrowers, limit_waiting, flock_sent,
          mission_show, max_altitude, max_distance>>

\* what the callers hold: paths and the result of a traversal
tripVars == <<trips, trip_status, command_queue, upload_pc, upload_trip,
              send_calls, responded, cancelled_new>>

udpVars == <<pool_size, udp_loop, udp_handlers, limit_borrowers, limit_waiting>>

flockVars == <<flock_sent>>

missionVars == <<mission_show, max_altitude, max_distance>>

\* the state of the extensions, which no operation of the device tree touches
extVars == <<tripVars, udpVars, flockVars, missionVars>>

restVars == <<path_clone, extVars>>

queryVars == <<path_value, path_obj, path_again, traversal, restVars>>

treeVars == <<children, hasChildren>>
wiringVars == <<uav_registry, added_conn, removed_conn, client_registry,
                client_conn>>
historyVars == <<subCalls, unsubCalls>>

\* what an operation leaves in last: its name, its arguments (the client, the
\* node its path resolved to, the force flag, the UAV and its id, the
\* registry), the error it raised ("ok" when it returned), and in count what
\* the client held before the call (see Before)
Op(op, client, node, force, uav, id, reg, err) ==
    [op |-> op, client |-> client, node |-> node, force |-> force,
     uav |-> uav, id |-> id, reg |-> reg, err |-> err, count |-> 0]

Before(o, count) == [o EXCEPT !.count = count]

NoId == <<>>

(***************************************************************************)
(* DeviceTreeNodeBase                                                      *)
(***************************************************************************)
\* the value of bool(node._subscribers)
HasSubscribers(subs, n) ==
    /\ ~subs[n].isNone
    /\ DOMAIN subs[n].counter # {}

\* Counter.__getitem__: a missing key counts as zero
CounterGet(counter, c) == IF c \in DOMAIN counter THEN counter[c] ELSE 0

CounterSet(counter, c, v) ==
    [d \in DOMAIN counter \cup {c} |-> IF d = c THEN v ELSE counter[d]]

CounterDel(counter, c) == [d \in DOMAIN counter \ {c} |-> counter[d]]

CountSubscriptionsOf(subs, n, c) ==
    IF HasSubscribers(subs, n) THEN CounterGet(subs[n].counter, c) ELSE 0

\* the children dict of a node as a sequence of (id, child) pairs
IterChildren(ch, has, n) == IF n \in has THEN ch[n] ELSE <<>>

ChildIds(ch, n) == {ch[n][i].id : i \in DOMAIN ch[n]}

ChildOf(ch, n, id) ==
    LET i == CHOOSE j \in DOMAIN ch[n] : ch[n][j].id = id IN ch[n][i].node

\* _subscribe that records a subscription as a flag instead of counting
SubscribeNode_Flag(subs, n, c) ==
    LET counter == IF subs[n].isNone THEN EmptyCounter ELSE subs[n].counter
    IN  [subs EXCEPT ![n] =
            [isNone |-> FALSE, counter |-> CounterSet(counter, c, 1)]]

\* _subscribe that counts the subscription on every node that has a
\* subscriber map already, and on the node itself
SubscribeNode_Spread(subs, n, c) ==
    [m \in Nodes |->
        IF m = n \/ ~subs[m].isNone
        THEN [isNone |-> FALSE,
              counter |-> CounterSet(subs[m].counter, c,
                                     CounterGet(subs[m].counter, c) + 1)]
        ELSE subs[m]]

\* DeviceTreeNodeBase._subscribe
SubscribeNode(subs, n, c) ==
    LET counter == IF subs[n].isNone THEN EmptyCounter ELSE subs[n].counter
    IN  [subs EXCEPT ![n] =
            [isNone |-> FALSE,
             counter |-> CounterSet(counter, c, CounterGet(counter, c) + 1)]]

\* _unsubscribe that never raises
UnsubscribeNode_Silent(subs, n, c, force) ==
    IF CountSubscriptionsOf(subs, n, c) > 0
    THEN IF force
         THEN [err |-> "ok",
               subs |-> [subs EXCEPT ![n].counter = CounterDel(@, c)]]
         ELSE [err |-> "ok",
               subs |-> [subs EXCEPT ![n].counter =
                            CounterSet(@, c, CounterGet(@, c) - 1)]]
    ELSE [err |-> "ok", subs |-> subs]

\* _unsubscribe that ignores force when the client is subscribed
UnsubscribeNode_ForceOnce(subs, n, c, force) ==
    IF CountSubscriptionsOf(subs, n, c) > 0
    THEN [err |-> "ok",
          subs |-> [subs EXCEPT ![n].counter =
                       CounterSet(@, c, CounterGet(@, c) - 1)]]
    ELSE IF ~force
         THEN [err |-> "KeyError", subs |-> subs]
         ELSE [err |-> "ok", subs |-> subs]

\* _unsubscribe that leaves a Counter with a zero entry for the client behind
\* when it raises
UnsubscribeNode_Touch(subs, n, c, force) ==
    IF CountSubscriptionsOf(subs, n, c) > 0
    THEN IF force
         THEN [err |-> "ok",
               subs |-> [subs EXCEPT ![n].counter = CounterDel(@, c)]]
         ELSE [err |-> "ok",
               subs |-> [subs EXCEPT ![n].counter =
                            CounterSet(@, c, CounterGet(@, c) - 1)]]
    ELSE IF ~force
         THEN [err |-> "KeyError",
               subs |-> [subs EXCEPT ![n] =
                            [isNone |-> FALSE,
                             counter |-> CounterSet(subs[n].counter, c, 0)]]]
         ELSE [err |-> "ok", subs |-> subs]

\* DeviceTreeNodeBase._unsubscribe; err is "KeyError" when it raises
UnsubscribeNode(subs, n, c, force) ==
    IF CountSubscriptionsOf(subs, n, c) > 0
    THEN IF force
         THEN [err |-> "ok",
               subs |-> [subs EXCEPT ![n].counter = CounterDel(@, c)]]
         ELSE [err |-> "ok",
               subs |-> [subs EXCEPT ![n].counter =
                            CounterSet(@, c, CounterGet(@, c) - 1)]]
    ELSE IF ~force
         THEN [err |-> "KeyError", subs |-> subs]
         ELSE [err |-> "ok", subs |-> subs]

\* the id that the traversal reports for the node it starts from (None)
NoneId == <<"None">>

\* _add_child that replaces an existing child instead of raising
AddChild_Overwrite(ch, has, n, id, node) ==
    LET cur == IterChildren(ch, has, n)
    IN  [err |-> "ok",
         ch  |-> [ch EXCEPT ![n] =
                     Append(SelectSeq(cur, LAMBDA e : e.id # id),
                            [id |-> id, node |-> node])],
         has |-> has \cup {n}]

\* DeviceTreeNodeBase._add_child
AddChild(ch, has, n, id, node) ==
    LET cur == IterChildren(ch, has, n)
    IN  IF \E i \in DOMAIN cur : cur[i].id = id
        THEN [err |-> "ValueError", ch |-> ch, has |-> has]
        ELSE [err |-> "ok",
              ch  |-> [ch EXCEPT ![n] = Append(cur, [id |-> id, node |-> node])],
              has |-> has \cup {n}]

\* _remove_child_by_id that looks the child up without removing it
RemoveChildById_Keep(ch, has, n, id) ==
    IF n \notin has
    THEN [err |-> "AttributeError", ch |-> ch, removed |-> "-"]
    ELSE IF id \notin ChildIds(ch, n)
    THEN [err |-> "ValueError", ch |-> ch, removed |-> "-"]
    ELSE [err |-> "ok", ch |-> ch, removed |-> ChildOf(ch, n, id)]

\* DeviceTreeNodeBase._remove_child_by_id: self.children.pop(id)
RemoveChildById(ch, has, n, id) ==
    IF n \notin has
    THEN [err |-> "AttributeError", ch |-> ch, removed |-> "-"]
    ELSE IF id \notin ChildIds(ch, n)
    THEN [err |-> "ValueError", ch |-> ch, removed |-> "-"]
    ELSE [err |-> "ok",
          ch  |-> [ch EXCEPT ![n] = SelectSeq(@, LAMBDA e : e.id # id)],
          removed |-> ChildOf(ch, n, id)]

\* DeviceTreeNodeBase._remove_child: the first child that is the given node
\* is removed by its id
RemoveChild(ch, has, n, node) ==
    LET items == IterChildren(ch, has, n)
    IN  IF \E i \in DOMAIN items : items[i].node = node
        THEN LET i == CHOOSE j \in DOMAIN items :
                         /\ items[j].node = node
                         /\ \A k \in 1..(j - 1) : items[k].node # node
             IN  RemoveChildById(ch, has, n, items[i].id)
        ELSE [err |-> "ValueError", ch |-> ch, removed |-> "-"]

RECURSIVE TraverseLoop_PopFirst(_, _, _)
\* a traversal loop that takes the first element of the queue
TraverseLoop_PopFirst(ch, has, queue) ==
    IF queue = <<>> THEN <<>>
    ELSE <<Head(queue)>>
         \o TraverseLoop_PopFirst(ch, has,
                Tail(queue) \o IterChildren(ch, has, Head(queue).node))

RECURSIVE TraverseLoop(_, _, _)
\* the loop of DeviceTreeNodeBase.traverse_dfs: pop the last element of the
\* queue, yield it, push its children
TraverseLoop(ch, has, queue) ==
    IF queue = <<>> THEN <<>>
    ELSE LET top  == queue[Len(queue)]
             rest == SubSeq(queue, 1, Len(queue) - 1)
         IN  <<top>> \o TraverseLoop(ch, has, rest \o IterChildren(ch, has, top.node))

\* a traversal that stops below the children of the node it starts from
TraverseDfs_OneLevel(ch, has, n, own_id) ==
    << [id |-> own_id, node |-> n] >> \o IterChildren(ch, has, n)

\* DeviceTreeNodeBase.traverse_dfs
TraverseDfs(ch, has, n, own_id) ==
    TraverseLoop(ch, has, << [id |-> own_id, node |-> n] >>)

(***************************************************************************)
(* DeviceTree                                                              *)
(***************************************************************************)
RECURSIVE ResolveFrom(_, _, _, _)
\* the loop of DeviceTree.resolve: node = node.children[part]
ResolveFrom(ch, has, node, parts) ==
    IF parts = <<>> THEN [err |-> "ok", node |-> node]
    ELSE IF node \notin has
    THEN [err |-> "AttributeError", node |-> "-"]
    ELSE IF Head(parts) \notin ChildIds(ch, node)
    THEN [err |-> "NoSuchPathError", node |-> "-"]
    ELSE ResolveFrom(ch, has, ChildOf(ch, node, Head(parts)), Tail(parts))

\* DeviceTree.resolve, for a path given as a string
Resolve(ch, has, path) ==
    LET parsed == ParsePath(path)
    IN  IF parsed.err # "ok"
        THEN [err |-> parsed.err, node |-> "-"]
        ELSE ResolveFrom(ch, has, "root", IterParts(parsed.parts))

\* DeviceTree.traverse_dfs
TreeTraverseDfs(ch, has) == TraverseDfs(ch, has, "root", NoneId)

(***************************************************************************)
(* DeviceTreeSubscriptionManager                                           *)
(***************************************************************************)
RECURSIVE CollectSubscriptions(_, _, _, _, _, _)
RECURSIVE CollectChildren(_, _, _, _, _, _)
\* DeviceTreeSubscriptionManager._collect_subscriptions; the result is the
\* Counter of what the call adds
CollectSubscriptions(subs, ch, has, c, parts, node) ==
    LET count == CountSubscriptionsOf(subs, node, c)
        own   == IF count > 0 THEN PathString(parts) :> count ELSE EmptyBag
    IN  own (+) CollectChildren(subs, ch, has, c, parts, IterChildren(ch, has, node))

\* the loop over node.iterchildren() in _collect_subscriptions
CollectChildren(subs, ch, has, c, parts, items) ==
    IF items = <<>> THEN EmptyBag
    ELSE CollectSubscriptions(subs, ch, has, c,
                              Append(parts, Head(items).id), Head(items).node)
         (+) CollectChildren(subs, ch, has, c, parts, Tail(items))

\* DeviceTreePath.__init__ with a DeviceTreePath: list(path._parts)
PathCopy(parts) == parts

RECURSIVE CollectParts(_, _, _, _)
RECURSIVE CollectPartsLoop_NoPop(_, _, _, _)
\* a loop over the children that appends the id of each child to the path
\* and never takes it off again
CollectPartsLoop_NoPop(ch, has, parts, items) ==
    IF items = <<>> THEN parts
    ELSE CollectPartsLoop_NoPop(ch, has,
             CollectParts(ch, has, Append(parts, Head(items).id), Head(items).node),
             Tail(items))

RECURSIVE CollectPartsLoop(_, _, _, _)
\* the loop over node.iterchildren() in _collect_subscriptions, for what it
\* does to path._parts: append the id, descend, pop
CollectPartsLoop(ch, has, parts, items) ==
    IF items = <<>> THEN parts
    ELSE LET pushed == Append(parts, Head(items).id)
             walked == CollectParts(ch, has, pushed, Head(items).node)
             popped == SubSeq(walked, 1, Len(walked) - 1)
         IN  CollectPartsLoop(ch, has, popped, Tail(items))

\* _collect_subscriptions: path._parts when the call returns
CollectParts(ch, has, parts, node) ==
    CollectPartsLoop(ch, has, parts, IterChildren(ch, has, node))

RootFilter == << <<Slash>> >>

RECURSIVE ListLoop(_, _, _, _, _)
\* the loop over path_filter in list_subscriptions
ListLoop(subs, ch, has, c, filters) ==
    IF filters = <<>> THEN [err |-> "ok", result |-> EmptyBag]
    ELSE LET r == Resolve(ch, has, Head(filters))
         IN  IF r.err # "ok" THEN [err |-> r.err, result |-> EmptyBag]
             ELSE LET rest == ListLoop(subs, ch, has, c, Tail(filters))
                  IN  IF rest.err # "ok" THEN rest
                      ELSE [err |-> "ok",
                            result |-> CollectSubscriptions(subs, ch, has, c,
                                          ParsePath(Head(filters)).parts, r.node)
                                       (+) rest.result]

\* DeviceTreeSubscriptionManager.list_subscriptions; a path_filter of None
\* is given as NoFilter
NoFilter == << <<"None">> >>

ListSubscriptions(subs, ch, has, c, path_filter) ==
    ListLoop(subs, ch, has, c,
             IF path_filter = NoFilter THEN RootFilter ELSE path_filter)

\* a purge that drops the whole subscriber map of every node it visits
PurgeLoop_ClearAll(subs, items, c) ==
    [n \in Nodes |-> IF \E i \in DOMAIN items : items[i].node = n
                     THEN NoSubscribers ELSE subs[n]]

RECURSIVE PurgeLoop(_, _, _)
\* the loop of _on_client_removed over the traversal of the tree
PurgeLoop(subs, items, c) ==
    IF items = <<>> THEN subs
    ELSE PurgeLoop(UnsubscribeNode(subs, Head(items).node, c, TRUE).subs,
                   Tail(items), c)

\* a purge that unsubscribes the client from the root only
OnClientRemoved_RootOnly(subs, ch, has, c) ==
    UnsubscribeNode(subs, "root", c, TRUE).subs

\* DeviceTreeSubscriptionManager._on_client_removed
OnClientRemoved(subs, ch, has, c) ==
    PurgeLoop(subs, TreeTraverseDfs(ch, has), c)

(***************************************************************************)
(* UAVRegistry                                                             *)
(***************************************************************************)
\* UAVRegistry.add that replaces whatever object holds the id
RegistryAdd_Replace(ent, u) ==
    [err |-> "ok",
     ent |-> [i \in DOMAIN ent \cup {UAVId(u)} |->
                 IF i = UAVId(u) THEN u ELSE ent[i]],
     send |-> TRUE]

\* UAVRegistry.add up to the point where the added signal is sent: the new
\* _entries dict, or a KeyError
RegistryAdd(ent, u) ==
    LET id == UAVId(u)
    IN  IF id \in DOMAIN ent /\ ent[id] # u
        THEN [err |-> "KeyError", ent |-> ent, send |-> FALSE]
        ELSE [err |-> "ok",
              ent |-> [i \in DOMAIN ent \cup {id} |-> IF i = id THEN u ELSE ent[i]],
              send |-> TRUE]

\* UAVRegistry.remove_by_id up to the point where the removed signal is sent
RegistryRemoveById(ent, id) ==
    IF id \notin DOMAIN ent
    THEN [err |-> "KeyError", ent |-> ent, uav |-> "-", send |-> FALSE]
    ELSE [err |-> "ok",
          ent |-> [i \in DOMAIN ent \ {id} |-> ent[i]],
          uav |-> ent[id], send |-> TRUE]

(***************************************************************************)
(* History                                                                 *)
(***************************************************************************)
RECURSIVE Descendants(_, _, _)
\* the nodes of the subtree of n
Descendants(ch, has, n) ==
    LET items == IterChildren(ch, has, n)
    IN  {n} \cup UNION {Descendants(ch, has, items[i].node) : i \in DOMAIN items}

Attached == Descendants(children, hasChildren, "root")

RECURSIVE SumOver(_, _)
SumOver(f, S) ==
    IF S = {} THEN 0
    ELSE LET x == CHOOSE y \in S : TRUE IN f[x] + SumOver(f, S \ {x})

\* the number of subscribe() calls that no forced removal has cancelled
Outstanding ==
    SumOver([n \in Nodes |-> SumOver(subCalls[n], Clients)], Nodes)

SubscriberCount(n, c) == CountSubscriptionsOf(subscribers, n, c)

(***************************************************************************)
(* Initial state: an empty tree, nothing bound, empty registries; the UAV  *)
(* objects carry their pre-built subtrees                                  *)
(***************************************************************************)
InitObjects ==
    /\ children = [n \in Nodes |->
                     CASE n = "uav1" -> << [id |-> <<"g">>, node |-> "gps1"] >>
                       [] n = "gps1" -> << [id |-> <<"l">>, node |-> "lat1"] >>
                       [] OTHER      -> <<>>]
    /\ hasChildren = {"uav1", "gps1"}
    /\ subscribers = [n \in Nodes |-> NoSubscribers]
    /\ uav_registry = "None"
    /\ added_conn = {}
    /\ removed_conn = {}
    /\ entries = [r \in UAVRegistries |-> NoEntries]
    /\ client_registry = "None"
    /\ client_conn = {}
    /\ subCalls = [n \in Nodes |-> [c \in Clients |-> 0]]
    /\ unsubCalls = [n \in Nodes |-> [c \in Clients |-> 0]]
    /\ last = Op("init", "-", "-", FALSE, "-", NoId, "-", "ok")

\* no DeviceTreePath object constructed yet
NoPath == [err |-> "none", parts |-> <<>>]

\* the Trip objects that the extension may create
MaxTrips == 3

TripIds == 1..MaxTrips

\* the UAV ids that trip messages name
TripUAVs == {"u1", "u2"}

\* ERPSystemConnectionDemoExtension.__init__, and run() up to manage_trips
InitTrips ==
    /\ trips = [u \in TripUAVs |-> 0]
    /\ trip_status = [t \in TripIds |-> "none"]
    /\ command_queue = <<>>
    /\ upload_pc = "idle"
    /\ upload_trip = 0
    /\ send_calls = [t \in TripIds |-> 0]
    /\ responded = {}
    /\ cancelled_new = {}

\* the datagrams that the socket may receive
MaxDatagrams == 4

Handlers == 1..MaxDatagrams

\* the largest configured pool size of the inputs
MaxPool == 2

\* configuration.get("pool_size", 1000)
DefaultPoolSize == 1000

\* task() up to the receive loop: limit = CapacityLimiter(pool_size)
InitUdp(pool) ==
    /\ pool_size = pool
    /\ udp_loop = "running"
    /\ udp_handlers = [h \in Handlers |-> "none"]
    /\ limit_borrowers = {}
    /\ limit_waiting = <<>>

\* FlockCtrlDronesExtension.__init__: nothing was sent
InitFlock == flock_sent = <<>>

NoShow == [type |-> "-", points |-> <<>>]

\* no mission was generated
InitMission ==
    /\ mission_show = NoShow
    /\ max_altitude = -1
    /\ max_distance = -1

\* the objects outside the device tree, before anything has run
InitRest ==
    /\ path_clone = NoPath
    /\ InitTrips
    /\ InitUdp(DefaultPoolSize)
    /\ InitFlock
    /\ InitMission

\* the default argument of DeviceTreePath.__init__ is u"/"
Init ==
    /\ InitObjects
    /\ path_value = <<Slash>>
    /\ path_obj = NoPath
    /\ path_again = NoPath
    /\ traversal = <<>>
    /\ InitRest

(***************************************************************************)
(* Operations of the subscription manager                                  *)
(***************************************************************************)
\* DeviceTreeSubscriptionManager.subscribe
Subscribe(c, path) ==
    LET r == Resolve(children, hasChildren, path)
    IN  IF r.err # "ok"
        THEN /\ last' = Op("subscribe", c, "-", FALSE, "-", NoId, "-", r.err)
             /\ UNCHANGED <<queryVars, treeVars, subscribers, wiringVars, entries, historyVars>>
        ELSE /\ subCalls[r.node][c] < MaxK
             /\ Outstanding < MaxTotal
             /\ subscribers' = SubscribeNode(subscribers, r.node, c)
             /\ subCalls' = [subCalls EXCEPT ![r.node][c] = @ + 1]
             /\ last' = Before(Op("subscribe", c, r.node, FALSE, "-", NoId, "-", "ok"),
                               SubscriberCount(r.node, c))
             /\ UNCHANGED <<queryVars, treeVars, wiringVars, entries, unsubCalls>>

\* DeviceTreeSubscriptionManager.unsubscribe
Unsubscribe(c, path, force) ==
    LET r == Resolve(children, hasChildren, path)
    IN  IF r.err # "ok"
        THEN /\ last' = Op("unsubscribe", c, "-", force, "-", NoId, "-", r.err)
             /\ UNCHANGED <<queryVars, treeVars, subscribers, wiringVars, entries, historyVars>>
        ELSE LET u == UnsubscribeNode(subscribers, r.node, c, force)
             IN  IF u.err = "KeyError"
                 THEN /\ subscribers' = u.subs
                      /\ last' = Before(Op("unsubscribe", c, r.node, force, "-", NoId,
                                           "-", "ClientNotSubscribedError"),
                                        SubscriberCount(r.node, c))
                      /\ UNCHANGED <<queryVars, treeVars, wiringVars, entries,
                                     historyVars>>
                 ELSE /\ subscribers' = u.subs
                      /\ IF force
                         THEN /\ subCalls' = [subCalls EXCEPT ![r.node][c] = 0]
                              /\ unsubCalls' = [unsubCalls EXCEPT ![r.node][c] = 0]
                         ELSE /\ unsubCalls' = [unsubCalls EXCEPT ![r.node][c] = @ + 1]
                              /\ UNCHANGED subCalls
                      /\ last' = Before(Op("unsubscribe", c, r.node, force, "-", NoId,
                                           "-", "ok"),
                                        SubscriberCount(r.node, c))
                      /\ UNCHANGED <<queryVars, treeVars, wiringVars, entries>>

\* a client_registry setter that disconnects nothing when it is given None
SetClientRegistry_NoDetach(value) ==
    /\ IF client_registry = value
       THEN UNCHANGED <<client_registry, client_conn>>
       ELSE /\ client_registry' = value
            /\ client_conn' = IF value = "None" THEN client_conn
                              ELSE (client_conn \ {client_registry}) \cup {value}
    /\ last' = Op("set_client_registry", "-", "-", FALSE, "-", NoId, value, "ok")
    /\ UNCHANGED <<queryVars, treeVars, subscribers, uav_registry, added_conn, removed_conn,
                   entries, historyVars>>

\* DeviceTreeSubscriptionManager.client_registry setter
SetClientRegistry(value) ==
    /\ IF client_registry = value
       THEN UNCHANGED <<client_registry, client_conn>>
       ELSE /\ client_registry' = value
            /\ client_conn' = (client_conn \ {client_registry})
                                 \cup (IF value = "None" THEN {} ELSE {value})
    /\ last' = Op("set_client_registry", "-", "-", FALSE, "-", NoId, value, "ok")
    /\ UNCHANGED <<queryVars, treeVars, subscribers, uav_registry, added_conn, removed_conn,
                   entries, historyVars>>

\* the client registry reg sends its removed signal for client c; the
\* handler _on_client_removed runs when it is connected to that sender
ClientRemoved(reg, c) ==
    /\ IF reg \in client_conn
       THEN /\ subscribers' = OnClientRemoved(subscribers, children, hasChildren, c)
            /\ subCalls' = [n \in Nodes |->
                              IF n \in Attached THEN [subCalls[n] EXCEPT ![c] = 0]
                              ELSE subCalls[n]]
            /\ unsubCalls' = [n \in Nodes |->
                                IF n \in Attached THEN [unsubCalls[n] EXCEPT ![c] = 0]
                                ELSE unsubCalls[n]]
       ELSE UNCHANGED <<subscribers, historyVars>>
    /\ last' = Before(Op("client_removed", c, "-", FALSE, "-", NoId, reg, "ok"),
                      Cardinality({n \in Attached : SubscriberCount(n, c) > 0}))
    /\ UNCHANGED <<queryVars, treeVars, wiringVars, entries>>

(***************************************************************************)
(* Operations of the device tree and of the UAV registry                   *)
(***************************************************************************)
\* a uav_registry setter that leaves the handlers connected to the registry
\* it replaces
SetUAVRegistry_KeepOld(value) ==
    /\ IF uav_registry = value
       THEN UNCHANGED <<uav_registry, added_conn, removed_conn>>
       ELSE /\ uav_registry' = value
            /\ added_conn' = added_conn
                                \cup (IF value = "None" THEN {} ELSE {value})
            /\ removed_conn' = removed_conn
                                \cup (IF value = "None" THEN {} ELSE {value})
    /\ last' = Op("set_uav_registry", "-", "-", FALSE, "-", NoId, value, "ok")
    /\ UNCHANGED <<queryVars, treeVars, subscribers, entries, client_registry, client_conn,
                   historyVars>>

\* DeviceTree.uav_registry setter
SetUAVRegistry(value) ==
    /\ IF uav_registry = value
       THEN UNCHANGED <<uav_registry, added_conn, removed_conn>>
       ELSE /\ uav_registry' = value
            /\ added_conn' = (added_conn \ {uav_registry})
                                \cup (IF value = "None" THEN {} ELSE {value})
            /\ removed_conn' = (removed_conn \ {uav_registry})
                                \cup (IF value = "None" THEN {} ELSE {value})
    /\ last' = Op("set_uav_registry", "-", "-", FALSE, "-", NoId, value, "ok")
    /\ UNCHANGED <<queryVars, treeVars, subscribers, entries, client_registry, client_conn,
                   historyVars>>

\* an added handler that attaches nothing
OnUAVAdded_Noop(ch, has, u) == [err |-> "ok", ch |-> ch, has |-> has]

\* DeviceTree._on_uav_added
OnUAVAdded(ch, has, u) == AddChild(ch, has, "root", UAVId(u), UAVDeviceTreeNode(u))

\* DeviceTree._on_uav_removed
OnUAVRemoved(ch, has, u) == RemoveChildById(ch, has, "root", UAVId(u))

\* UAVRegistry.add, with the handlers that the added signal reaches
UAVRegistryAdd(reg, u) ==
    LET a == RegistryAdd(entries[reg], u)
    IN  /\ entries' = [entries EXCEPT ![reg] = a.ent]
        /\ IF a.send /\ reg \in added_conn
           THEN LET h == OnUAVAdded(children, hasChildren, u)
                IN  /\ children' = h.ch
                    /\ hasChildren' = h.has
                    /\ last' = Op("uav_add", "-", UAVDeviceTreeNode(u), FALSE, u,
                                  UAVId(u), reg, h.err)
           ELSE /\ UNCHANGED treeVars
                /\ last' = Op("uav_add", "-", UAVDeviceTreeNode(u), FALSE, u,
                              UAVId(u), reg, a.err)
        /\ UNCHANGED <<queryVars, subscribers, wiringVars, historyVars>>

\* UAVRegistry.remove_by_id (and remove, which calls it with uav.id), with
\* the handlers that the removed signal reaches
UAVRegistryRemoveById(reg, id) ==
    LET a == RegistryRemoveById(entries[reg], id)
    IN  /\ entries' = [entries EXCEPT ![reg] = a.ent]
        /\ IF a.send /\ reg \in removed_conn
           THEN LET h == OnUAVRemoved(children, hasChildren, a.uav)
                IN  /\ children' = h.ch
                    /\ last' = Op("uav_remove", "-", "-", FALSE, a.uav, id, reg, h.err)
           ELSE /\ UNCHANGED children
                /\ last' = Op("uav_remove", "-", "-", FALSE, a.uav, id, reg, a.err)
        /\ UNCHANGED <<queryVars, hasChildren, subscribers, wiringVars, historyVars>>

\* RootNode.add_child, called on the root of the tree directly
RootAddChild(id, node) ==
    LET h == AddChild(children, hasChildren, "root", id, node)
    IN  /\ children' = h.ch
        /\ hasChildren' = h.has
        /\ last' = Op("add_child", "-", node, FALSE, "-", id, "-", h.err)
        /\ UNCHANGED <<queryVars, subscribers, wiringVars, entries, historyVars>>

(***************************************************************************)
(* Inputs and specifications                                               *)
(***************************************************************************)
PathRoot == <<Slash>>
PathA == <<Slash, "a">>
PathAG == <<Slash, "a", Slash, "g">>
PathAGL == <<Slash, "a", Slash, "g", Slash, "l">>
PathB == <<Slash, "b">>

\* Spec: the subscription manager over a tree that the bound registry R1
\* builds from the UAV u1
SubscribeInputs ==
    {<<"A", PathRoot>>, <<"A", PathA>>, <<"A", PathAGL>>, <<"B", PathA>>}

Next ==
    \/ \E i \in SubscribeInputs : Subscribe(i[1], i[2])
    \/ \E i \in SubscribeInputs, f \in BOOLEAN : Unsubscribe(i[1], i[2], f)
    \/ \E v \in ClientRegistries : SetClientRegistry(v)
    \/ \E r \in ClientRegistries, c \in Clients : ClientRemoved(r, c)
    \/ SetUAVRegistry("R1")
    \/ UAVRegistryAdd("R1", "u1")
    \/ UAVRegistryRemoveById("R1", UAVId("u1"))

Spec == Init /\ [][Next]_vars

\* SpecWiring: the registry wiring, with binding and unbinding, all the UAV
\* objects and direct attachment under the root
WiringRegistries == {"R1"}

NextWiring ==
    \/ \E v \in WiringRegistries \cup {"None"} : SetUAVRegistry(v)
    \/ \E r \in WiringRegistries, u \in UAVs : UAVRegistryAdd(r, u)
    \/ \E r \in WiringRegistries, i \in UAVIds : UAVRegistryRemoveById(r, i)
    \/ \E u \in UAVs : RootAddChild(UAVId(u), UAVDeviceTreeNode(u))

SpecWiring == Init /\ [][NextWiring]_vars

\* the constructor and the string form of DeviceTreePath, over every string
\* of at most MaxLen characters, next to a tree that gains a UAV
MaxLen == 5

PathAlphabet == {Slash, "a", "g"}

PathStrings == UNION {[1..n -> PathAlphabet] : n \in 0..MaxLen}

InitPath ==
    /\ InitObjects
    /\ path_value \in PathStrings
    /\ path_obj = NoPath
    /\ path_again = NoPath
    /\ traversal = <<>>
    /\ InitRest

\* path_obj = DeviceTreePath(path_value)
PathConstruct ==
    /\ path_obj = NoPath
    /\ path_obj' = ParsePath(path_value)
    /\ last' = Op("path", "-", "-", FALSE, "-", NoId, "-", path_obj'.err)
    /\ UNCHANGED <<path_value, path_again, traversal, restVars, treeVars, subscribers, wiringVars,
                   entries, historyVars>>

\* path_again = DeviceTreePath(unicode(path_obj))
PathReconstruct ==
    /\ path_obj.err = "ok"
    /\ path_again = NoPath
    /\ path_again' = ParsePath(PathString(path_obj.parts))
    /\ last' = Op("path_again", "-", "-", FALSE, "-", NoId, "-", path_again'.err)
    /\ UNCHANGED <<path_value, path_obj, traversal, restVars, treeVars, subscribers, wiringVars,
                   entries, historyVars>>

NextPath ==
    \/ PathConstruct
    \/ PathReconstruct
    \/ SetUAVRegistry("R1")
    \/ UAVRegistryAdd("R1", "u1")

SpecPath == InitPath /\ [][NextPath]_vars

\* DeviceTreeSubscriptionManager.list_subscriptions with one filter; the
\* Counter it returns is not kept
List(c, path) ==
    LET n == Resolve(children, hasChildren, path)
        r == ListSubscriptions(subscribers, children, hasChildren, c, <<path>>)
    IN  /\ last' = Op("list", c, IF n.err = "ok" THEN n.node ELSE "-", FALSE,
                      "-", NoId, "-", r.err)
        /\ UNCHANGED <<queryVars, treeVars, subscribers, wiringVars, entries,
                       historyVars>>

\* list_subscriptions with the DeviceTreePath object path_obj as its only
\* filter; path_clone is the copy that the walk was made with
ListPath(c) ==
    /\ path_obj.err = "ok"
    /\ LET r == ResolveFrom(children, hasChildren, "root", IterParts(path_obj.parts))
       IN  IF r.err # "ok"
           THEN /\ last' = Op("list_path", c, "-", FALSE, "-", NoId, "-", r.err)
                /\ UNCHANGED path_clone
           ELSE /\ path_clone' =
                      [err |-> "ok",
                       parts |-> CollectParts(children, hasChildren,
                                              PathCopy(path_obj.parts), r.node)]
                /\ last' = Op("list_path", c, r.node, FALSE, "-", NoId, "-", "ok")
    /\ UNCHANGED <<path_value, path_obj, path_again, traversal, treeVars,
                   subscribers, wiringVars, entries, historyVars, extVars>>

\* well-formed paths: to nodes of the first UAV, to an id that no UAV has,
\* to an id that the device of the first UAV does not have, below the second
\* UAV, which never had a child, and below a channel
PathC == <<Slash, "c">>
PathAL == <<Slash, "a", Slash, "l">>
PathBG == <<Slash, "b", Slash, "g">>
PathAGLG == <<Slash, "a", Slash, "g", Slash, "l", Slash, "g">>

ResolveInputs == {PathA, PathAGL, PathC, PathAL, PathBG, PathAGLG}

NextResolve ==
    \/ SetUAVRegistry("R1")
    \/ \E u \in {"u1", "u2"} : UAVRegistryAdd("R1", u)
    \/ \E p \in ResolveInputs : Subscribe("A", p)
    \/ \E p \in ResolveInputs, f \in BOOLEAN : Unsubscribe("A", p, f)
    \/ \E p \in ResolveInputs : List("A", p)

SpecResolve == Init /\ [][NextResolve]_vars

\* binding, rebinding and unbinding: two UAV registries with one UAV each,
\* two client registries, and one subscription of A on the root
RebindUAVs == {<<"R1", "u1">>, <<"R2", "u2">>}

RebindClientRegistries == {"CR1", "CR2"}

NextRebind ==
    \/ \E v \in UAVRegistries \cup {"None"} : SetUAVRegistry(v)
    \/ \E i \in RebindUAVs : UAVRegistryAdd(i[1], i[2])
    \/ \E i \in RebindUAVs : UAVRegistryRemoveById(i[1], UAVId(i[2]))
    \/ \E v \in RebindClientRegistries \cup {"None"} : SetClientRegistry(v)
    \/ \E r \in RebindClientRegistries : ClientRemoved(r, "A")
    \/ Subscribe("A", PathRoot)

SpecRebind == Init /\ [][NextRebind]_vars

\* UAVRegistry.add with the added handler of the tree, on a state st given as
\* a record of the _entries dict of the registry and the tree
AddStep(st, reg, u) ==
    LET a == RegistryAdd(st.ent, u)
    IN  IF a.send /\ reg \in added_conn
        THEN LET h == OnUAVAdded(st.ch, st.has, u)
             IN  [ent |-> a.ent, ch |-> h.ch, has |-> h.has, err |-> h.err]
        ELSE [ent |-> a.ent, ch |-> st.ch, has |-> st.has, err |-> a.err]

\* UAVRegistry.remove with the removed handler of the tree
RemoveStep(st, reg, u) ==
    LET a == RegistryRemoveById(st.ent, UAVId(u))
    IN  IF a.send /\ reg \in removed_conn
        THEN LET h == OnUAVRemoved(st.ch, st.has, a.uav)
             IN  [ent |-> a.ent, ch |-> h.ch, has |-> st.has, err |-> h.err]
        ELSE [ent |-> a.ent, ch |-> st.ch, has |-> st.has, err |-> a.err]

RECURSIVE UseEnter(_, _, _, _)
\* the loop of use() before the yield: add every UAV and note it in added;
\* the first add that raises ends the loop
UseEnter(st, reg, args, added) ==
    IF args = <<>> THEN [st |-> st, added |-> added]
    ELSE LET n == AddStep(st, reg, Head(args))
         IN  IF n.err # "ok" THEN [st |-> n, added |-> added]
             ELSE UseEnter(n, reg, Tail(args), Append(added, Head(args)))

RECURSIVE UseExit(_, _, _)
\* the finally block of use(): remove every UAV noted in added; a remove
\* that raises ends the loop
UseExit(st, reg, added) ==
    IF added = <<>> THEN st
    ELSE LET n == RemoveStep([st EXCEPT !.err = "ok"], reg, Head(added))
         IN  IF n.err # "ok" THEN n ELSE UseExit(n, reg, Tail(added))

\* with registry.use(*args): body, where the body leaves the registry alone
\* and raises when raises is TRUE; the error is the one that leaves the
\* with statement
UAVRegistryUse(reg, args, raises) ==
    LET st0   == [ent |-> entries[reg], ch |-> children, has |-> hasChildren,
                  err |-> "ok"]
        enter == UseEnter(st0, reg, args, <<>>)
        exit  == UseExit(enter.st, reg, enter.added)
        err   == IF exit.err # "ok" THEN exit.err
                 ELSE IF enter.st.err # "ok" THEN enter.st.err
                 ELSE IF raises THEN "BodyError" ELSE "ok"
    IN  /\ entries' = [entries EXCEPT ![reg] = exit.ent]
        /\ children' = exit.ch
        /\ hasChildren' = exit.has
        /\ last' = Op("uav_use", "-", "-", raises, "-", NoId, reg, err)
        /\ UNCHANGED <<queryVars, subscribers, wiringVars, historyVars>>

\* the UAV registry R1, bound to the tree or not, with its three UAVs
UseArgs == {<<>>} \cup {<<u>> : u \in UAVs} \cup {<<u, v>> : u \in UAVs, v \in UAVs}

NextUse ==
    \/ \E v \in {"R1", "None"} : SetUAVRegistry(v)
    \/ \E u \in UAVs : UAVRegistryAdd("R1", u)
    \/ \E i \in UAVIds : UAVRegistryRemoveById("R1", i)
    \/ \E a \in UseArgs, b \in BOOLEAN : UAVRegistryUse("R1", a, b)

SpecUse == Init /\ [][NextUse]_vars

\* listing the subscriptions of A with filters given as strings and as a
\* DeviceTreePath object, over a tree that gains a UAV
ListFilters == {PathRoot, PathA, PathAGL, PathB}

InitList ==
    /\ InitObjects
    /\ path_value \in ListFilters
    /\ path_obj = NoPath
    /\ path_again = NoPath
    /\ traversal = <<>>
    /\ InitRest

NextList ==
    \/ PathConstruct
    \/ SetUAVRegistry("R1")
    \/ UAVRegistryAdd("R1", "u1")
    \/ \E p \in {PathRoot, PathAGL} : Subscribe("A", p)
    \/ \E p \in ListFilters : List("A", p)
    \/ ListPath("A")

SpecList == InitList /\ [][NextList]_vars

\* RootNode.remove_child
RootRemoveChild(node) ==
    LET h == RemoveChild(children, hasChildren, "root", node)
    IN  /\ children' = h.ch
        /\ last' = Op("remove_child", "-", node, FALSE, "-", NoId, "-", h.err)
        /\ UNCHANGED <<queryVars, hasChildren, subscribers, wiringVars, entries,
                       historyVars>>

\* a remove_child_by_id that also drops the subscriber maps of the subtree
\* it detaches
RootRemoveChildById_Purge(id) ==
    LET h == RemoveChildById(children, hasChildren, "root", id)
    IN  /\ children' = h.ch
        /\ subscribers' =
              [n \in Nodes |->
                  IF h.err = "ok" /\ n \in Descendants(children, hasChildren, h.removed)
                  THEN NoSubscribers ELSE subscribers[n]]
        /\ last' = Op("remove_child_by_id", "-", h.removed, FALSE, "-", id, "-",
                      h.err)
        /\ UNCHANGED <<queryVars, hasChildren, wiringVars, entries, historyVars>>

\* RootNode.remove_child_by_id
RootRemoveChildById(id) ==
    LET h == RemoveChildById(children, hasChildren, "root", id)
    IN  /\ children' = h.ch
        /\ last' = Op("remove_child_by_id", "-", h.removed, FALSE, "-", id, "-",
                      h.err)
        /\ UNCHANGED <<queryVars, hasChildren, subscribers, wiringVars, entries,
                       historyVars>>

\* DeviceTreeNodeBase._add_child, called on the node n
NodeAddChild(n, id, node) ==
    LET h == AddChild(children, hasChildren, n, id, node)
    IN  /\ children' = h.ch
        /\ hasChildren' = h.has
        /\ last' = Op("_add_child", "-", n, FALSE, "-", id, "-", h.err)
        /\ UNCHANGED <<queryVars, subscribers, wiringVars, entries, historyVars>>

\* n.traverse_dfs(), consumed to its end
Traverse(n) ==
    /\ traversal' = TraverseDfs(children, hasChildren, n, NoneId)
    /\ last' = Op("traverse", "-", n, FALSE, "-", NoId, "-", "ok")
    /\ UNCHANGED <<path_value, path_obj, path_again, restVars, treeVars, subscribers,
                   wiringVars, entries, historyVars>>

\* the structure of the tree: UAVs come and go through the bound registry and
\* through the root directly, a node is put below the channel, A subscribes,
\* and the tree is traversed
TreeUAVs == {"u1", "u2"}

NextTree ==
    \/ SetUAVRegistry("R1")
    \/ \E u \in TreeUAVs : UAVRegistryAdd("R1", u)
    \/ \E u \in TreeUAVs : UAVRegistryRemoveById("R1", UAVId(u))
    \/ \E u \in TreeUAVs : RootAddChild(UAVId(u), UAVDeviceTreeNode(u))
    \/ \E u \in TreeUAVs : RootRemoveChild(UAVDeviceTreeNode(u))
    \/ \E u \in TreeUAVs : RootRemoveChildById(UAVId(u))
    \/ NodeAddChild("lat1", <<"g">>, "uav3")
    \/ \E p \in {PathRoot, PathAGL} : Subscribe("A", p)
    \/ \E n \in {"root", "uav1"} : Traverse(n)

SpecTree == Init /\ [][NextTree]_vars

(***************************************************************************)
(* Trip manager of the cascade_demo extension                              *)
(***************************************************************************)
\* what no handler of an extension touches
deviceVars == <<treeVars, subscribers, wiringVars, entries, historyVars,
                path_value, path_obj, path_again, traversal, path_clone>>

\* the capacity of the command queue
QueueCapacity == 32

\* Trip(...): the object that the next call of the constructor returns
NewTrip == 1 + Cardinality({t \in TripIds : trip_status[t] # "none"})

\* the handlers run while the manage_trips task is suspended: in the receive
\* of the queue or in the await of the result
TaskSuspended == upload_pc \in {"idle", "awaiting"}

\* handle_trip_addition; valid is whether the message passes the checks of
\* the id, the start time and the route
HandleTripAddition(u, valid) ==
    /\ TaskSuspended
    /\ IF ~valid
       THEN /\ last' = Op("X-TRIP-ADD", "-", "-", FALSE, u, NoId, "-", "rejected")
            /\ UNCHANGED tripVars
       ELSE /\ NewTrip \in TripIds
            /\ Len(command_queue) < QueueCapacity
            /\ trips' = [trips EXCEPT ![u] = NewTrip]
            /\ trip_status' = [trip_status EXCEPT ![NewTrip] = "NEW"]
            /\ command_queue' = Append(command_queue, u)
            /\ last' = Op("X-TRIP-ADD", "-", "-", FALSE, u, NoId, "-", "ok")
            /\ UNCHANGED <<upload_pc, upload_trip, send_calls, responded,
                           cancelled_new>>
    /\ UNCHANGED <<deviceVars, udpVars, flockVars, missionVars>>

\* a cancellation that acknowledges the message and leaves the trip scheduled
HandleTripCancellation_KeepTrip(u, valid) ==
    /\ TaskSuspended
    /\ IF ~valid \/ trips[u] = 0
       THEN /\ last' = Op("X-TRIP-CANCEL", "-", "-", FALSE, u, NoId, "-", "rejected")
            /\ UNCHANGED tripVars
       ELSE /\ cancelled_new' =
                  IF trip_status[trips[u]] = "NEW"
                  THEN cancelled_new \cup {trips[u]} ELSE cancelled_new
            /\ last' = Op("X-TRIP-CANCEL", "-", "-", FALSE, u, NoId, "-", "ok")
            /\ UNCHANGED <<trips, trip_status, command_queue, upload_pc,
                           upload_trip, send_calls, responded>>
    /\ UNCHANGED <<deviceVars, udpVars, flockVars, missionVars>>

\* handle_trip_cancellation: trip = self._trips.pop(uav_id, None)
HandleTripCancellation(u, valid) ==
    /\ TaskSuspended
    /\ IF ~valid \/ trips[u] = 0
       THEN /\ last' = Op("X-TRIP-CANCEL", "-", "-", FALSE, u, NoId, "-", "rejected")
            /\ UNCHANGED tripVars
       ELSE /\ trips' = [trips EXCEPT ![u] = 0]
            /\ cancelled_new' =
                  IF trip_status[trips[u]] = "NEW"
                  THEN cancelled_new \cup {trips[u]} ELSE cancelled_new
            /\ last' = Op("X-TRIP-CANCEL", "-", "-", FALSE, u, NoId, "-", "ok")
            /\ UNCHANGED <<trip_status, command_queue, upload_pc, upload_trip,
                           send_calls, responded>>
    /\ UNCHANGED <<deviceVars, udpVars, flockVars, missionVars>>

\* an upload_trip_to_uav that does not look at the status of the trip
UploadBegin_NoStatusCheck(found) ==
    /\ upload_pc = "idle"
    /\ command_queue # <<>>
    /\ LET u == Head(command_queue)
           trip == trips[u]
       IN  /\ command_queue' = Tail(command_queue)
           /\ IF trip = 0 \/ ~found
              THEN /\ last' = Op("upload", "-", "-", FALSE, u, NoId, "-",
                                 IF trip = 0 THEN "no_trip" ELSE "no_uav")
                   /\ UNCHANGED <<trip_status, upload_pc, upload_trip>>
              ELSE /\ trip_status' = [trip_status EXCEPT ![trip] = "UPLOADING"]
                   /\ upload_pc' = "begun"
                   /\ upload_trip' = trip
                   /\ last' = Op("upload", "-", "-", FALSE, u, NoId, "-", "begun")
    /\ UNCHANGED <<trips, send_calls, responded, cancelled_new>>
    /\ UNCHANGED <<deviceVars, udpVars, flockVars, missionVars>>

\* manage_trips receives a UAV id from the queue and calls
\* upload_trip_to_uav, which runs up to trip.status = TripStatus.UPLOADING;
\* found is whether find_uav_by_id returns a UAV
UploadBegin(found) ==
    /\ upload_pc = "idle"
    /\ command_queue # <<>>
    /\ LET u == Head(command_queue)
           trip == trips[u]
       IN  /\ command_queue' = Tail(command_queue)
           /\ IF trip = 0 \/ trip_status[trip] # "NEW" \/ ~found
              THEN /\ last' = Op("upload", "-", "-", FALSE, u, NoId, "-",
                                 IF trip = 0 THEN "no_trip"
                                 ELSE IF trip_status[trip] # "NEW" THEN "not_new"
                                 ELSE "no_uav")
                   /\ UNCHANGED <<trip_status, upload_pc, upload_trip>>
              ELSE /\ trip_status' = [trip_status EXCEPT ![trip] = "UPLOADING"]
                   /\ upload_pc' = "begun"
                   /\ upload_trip' = trip
                   /\ last' = Op("upload", "-", "-", FALSE, u, NoId, "-", "begun")
    /\ UNCHANGED <<trips, send_calls, responded, cancelled_new>>
    /\ UNCHANGED <<deviceVars, udpVars, flockVars, missionVars>>

\* what the body of the try statement may do up to its first await:
\* generate_mission_for_trip raises; send_command raises NotSupportedError or
\* another exception; the response has no entry for the UAV; it has an entry
\* that is a plain value; it has an entry that is an awaitable
SendOutcomes == {"generate_raises", "NotSupportedError", "Exception",
                 "no_entry", "value", "awaitable"}

\* the outcomes in which uav.driver.send_command was called
Sent(outcome) == outcome # "generate_raises"

\* the outcomes in which send_command returned a response with the UAV in it
InResponse(outcome) == outcome \in {"value", "awaitable"}

\* the status of the trip after the try statement has run up to its first
\* await: the except clauses set ERROR, the else clause sets UPLOADED
AfterSend(outcome) ==
    IF outcome \in {"generate_raises", "NotSupportedError", "Exception"}
    THEN "ERROR"
    ELSE IF outcome = "awaitable" THEN "UPLOADING" ELSE "UPLOADED"

\* upload_trip_to_uav from the try statement to its first await or its return
UploadSend(outcome) ==
    /\ upload_pc = "begun"
    /\ send_calls' = [send_calls EXCEPT ![upload_trip] =
                         IF Sent(outcome) THEN @ + 1 ELSE @]
    /\ responded' = IF InResponse(outcome)
                    THEN responded \cup {upload_trip} ELSE responded
    /\ trip_status' = [trip_status EXCEPT ![upload_trip] = AfterSend(outcome)]
    /\ upload_pc' = IF outcome = "awaitable" THEN "awaiting" ELSE "idle"
    /\ upload_trip' = IF outcome = "awaitable" THEN upload_trip ELSE 0
    /\ last' = Op("send", "-", "-", FALSE, "-", NoId, "-", outcome)
    /\ UNCHANGED <<trips, command_queue, cancelled_new>>
    /\ UNCHANGED <<deviceVars, udpVars, flockVars, missionVars>>

\* how await result may end: with a value, with an exception, or with the
\* cancellation of the task, which is no Exception and leaves the function
\* through no except clause
AwaitOutcomes == {"value", "Exception", "Cancelled"}

\* upload_trip_to_uav from await result to its end
UploadAwait(outcome) ==
    /\ upload_pc = "awaiting"
    /\ trip_status' = [trip_status EXCEPT ![upload_trip] =
                          IF outcome = "value" THEN "UPLOADED"
                          ELSE IF outcome = "Exception" THEN "ERROR" ELSE @]
    /\ upload_pc' = IF outcome = "Cancelled" THEN "cancelled" ELSE "idle"
    /\ upload_trip' = 0
    /\ last' = Op("await", "-", "-", FALSE, "-", NoId, "-", outcome)
    /\ UNCHANGED <<trips, command_queue, send_calls, responded, cancelled_new>>
    /\ UNCHANGED <<deviceVars, udpVars, flockVars, missionVars>>

NextTrips ==
    \/ \E u \in TripUAVs, valid \in BOOLEAN : HandleTripAddition(u, valid)
    \/ \E u \in TripUAVs, valid \in BOOLEAN : HandleTripCancellation(u, valid)
    \/ \E found \in BOOLEAN : UploadBegin(found)
    \/ \E outcome \in SendOutcomes : UploadSend(outcome)
    \/ \E outcome \in AwaitOutcomes : UploadAwait(outcome)

SpecTrips == Init /\ [][NextTrips]_vars

(***************************************************************************)
(* The udp extension                                                       *)
(***************************************************************************)
\* the handler task that the next nursery.start_soon creates
NewHandler == 1 + Cardinality({h \in Handlers : udp_handlers[h] # "none"})

\* task(): data = await sock.recvfrom(65536); nursery.start_soon(handler, *data)
UdpReceive ==
    /\ udp_loop = "running"
    /\ NewHandler \in Handlers
    /\ udp_handlers' = [udp_handlers EXCEPT ![NewHandler] = "started"]
    /\ last' = Before(Op("recvfrom", "-", "-", FALSE, "-", NoId, "-", "ok"),
                      NewHandler)
    /\ UNCHANGED <<pool_size, udp_loop, limit_borrowers, limit_waiting>>
    /\ UNCHANGED <<deviceVars, tripVars, flockVars, missionVars>>

\* a handler that enters handle_message without looking at the limiter
HandlerAcquire_NoLimit(h) ==
    /\ udp_loop = "running"
    /\ udp_handlers[h] = "started"
    /\ limit_borrowers' = limit_borrowers \cup {h}
    /\ udp_handlers' = [udp_handlers EXCEPT ![h] = "running"]
    /\ UNCHANGED limit_waiting
    /\ last' = Before(Op("acquire", "-", "-", FALSE, "-", NoId, "-", "ok"), h)
    /\ UNCHANGED <<pool_size, udp_loop>>
    /\ UNCHANGED <<deviceVars, tripVars, flockVars, missionVars>>

\* handle_message_safely up to the body of async with limit: the task takes
\* a token when one is free and no task is parked, and is parked otherwise
HandlerAcquire(h) ==
    /\ udp_loop = "running"
    /\ udp_handlers[h] = "started"
    /\ IF Cardinality(limit_borrowers) < pool_size /\ limit_waiting = <<>>
       THEN /\ limit_borrowers' = limit_borrowers \cup {h}
            /\ udp_handlers' = [udp_handlers EXCEPT ![h] = "running"]
            /\ UNCHANGED limit_waiting
            /\ last' = Before(Op("acquire", "-", "-", FALSE, "-", NoId, "-", "ok"), h)
       ELSE /\ limit_waiting' = Append(limit_waiting, h)
            /\ udp_handlers' = [udp_handlers EXCEPT ![h] = "waiting"]
            /\ UNCHANGED limit_borrowers
            /\ last' = Before(Op("acquire", "-", "-", FALSE, "-", NoId, "-", "parked"), h)
    /\ UNCHANGED <<pool_size, udp_loop>>
    /\ UNCHANGED <<deviceVars, tripVars, flockVars, missionVars>>

\* how handle_message may end: the message was handled; encoder.loads raised
\* ValueError, which handle_message logs; the handling raised an Exception;
\* the handling raised what is no Exception (the cancellation of the task)
HandleOutcomes == {"handled", "malformed", "Exception", "BaseException"}

\* the outcomes that leave handle_message_safely with an exception
Propagates_All(outcome) == outcome \in {"Exception", "BaseException"}

\* except Exception as ex: log.exception(ex)
Propagates(outcome) == outcome = "BaseException"

\* the tasks that the release of a token wakes: as many of the oldest parked
\* tasks as there are free tokens
Woken(borrowers) ==
    LET available == pool_size - Cardinality(borrowers)
        n == IF available < Len(limit_waiting) THEN available ELSE Len(limit_waiting)
    IN  IF n <= 0 THEN <<>> ELSE SubSeq(limit_waiting, 1, n)

SeqRange(q) == {q[i] : i \in 1..Len(q)}

\* handle_message_safely from the body of async with limit to its end: the
\* token is released on every way out, and an exception that propagates ends
\* the nursery and the receive loop with it
HandlerFinish(h, outcome) ==
    /\ udp_loop = "running"
    /\ udp_handlers[h] = "running"
    /\ LET released == limit_borrowers \ {h}
           woken == Woken(released)
       IN  /\ limit_borrowers' = released \cup SeqRange(woken)
           /\ limit_waiting' = SubSeq(limit_waiting, Len(woken) + 1,
                                      Len(limit_waiting))
           /\ udp_handlers' = [k \in Handlers |->
                                  IF k = h THEN outcome
                                  ELSE IF k \in SeqRange(woken) THEN "running"
                                  ELSE udp_handlers[k]]
    /\ udp_loop' = IF Propagates(outcome) THEN "stopped" ELSE "running"
    /\ last' = Before(Op("finish", "-", "-", FALSE, "-", NoId, "-", outcome), h)
    /\ UNCHANGED pool_size
    /\ UNCHANGED <<deviceVars, tripVars, flockVars, missionVars>>

\* the extension configured with a small pool
InitPools ==
    /\ InitObjects
    /\ path_value = <<Slash>>
    /\ path_obj = NoPath
    /\ path_again = NoPath
    /\ traversal = <<>>
    /\ path_clone = NoPath
    /\ InitTrips
    /\ \E pool \in 1..MaxPool : InitUdp(pool)
    /\ InitFlock
    /\ InitMission

NextUdp ==
    \/ UdpReceive
    \/ \E h \in Handlers : HandlerAcquire(h)
    \/ \E h \in Handlers, outcome \in HandleOutcomes : HandlerFinish(h, outcome)

SpecUdp == InitPools /\ [][NextUdp]_vars

\* the scheduler of the event loop runs every task that is ready to run, and
\* the handlers that run finish
SpecUdpLive ==
    /\ InitPools
    /\ [][NextUdp]_vars
    /\ WF_vars(\E h \in Handlers : HandlerAcquire(h))
    /\ WF_vars(\E h \in Handlers, outcome \in HandleOutcomes : HandlerFinish(h, outcome))

(***************************************************************************)
(* The flockctrl extension: send_packet                                    *)
(***************************************************************************)
\* how many packets the wireless communicator is asked to send
MaxSent == 3

\* the addresses of the inputs; "None" is the address None
FlockAddresses == {"None", "a1", "a2"}

\* the destination None and the destinations (medium, address)
NoneDestination == [kind |-> "None", medium |-> "-", address |-> "-"]

TupleDestination(medium, address) ==
    [kind |-> "tuple", medium |-> medium, address |-> address]

FlockDestinations ==
    {NoneDestination}
        \cup {TupleDestination(m, a) : m \in {"wireless", "wired"},
                                        a \in FlockAddresses}

\* the body of send_packet: medium, address = destination fails with
\* TypeError for None; any medium but "wireless" raises ValueError; otherwise
\* the wireless communicator is called with the packet and the address
SendPacketResult(sent, packet, destination) ==
    IF destination.kind = "None"
    THEN [sent |-> sent, err |-> "TypeError"]
    ELSE IF destination.medium = "wireless"
    THEN [sent |-> Append(sent, [packet |-> packet,
                                 address |-> destination.address]),
          err |-> "ok"]
    ELSE [sent |-> sent, err |-> "ValueError"]

\* FlockCtrlDronesExtension.send_packet(packet, destination); called without
\* a destination it gets the default, None
SendPacket(destination) ==
    /\ Len(flock_sent) < MaxSent
    /\ LET r == SendPacketResult(flock_sent, "packet", destination)
       IN  /\ flock_sent' = r.sent
           /\ last' = Op("send_packet", "-", destination.medium, FALSE,
                         destination.address, NoId, "-", r.err)
    /\ UNCHANGED <<deviceVars, tripVars, udpVars, missionVars>>

\* FlockCtrlDronesExtension._on_clock_changed: for the clock "mtc" it builds
\* a clock synchronization packet and calls self.send_packet(packet)
OnClockChanged(clock) ==
    /\ Len(flock_sent) < MaxSent
    /\ IF clock # "mtc"
       THEN /\ last' = Op("clock_changed", "-", "-", FALSE, clock, NoId, "-", "ok")
            /\ UNCHANGED flock_sent
       ELSE LET r == SendPacketResult(flock_sent, "clock_sync", NoneDestination)
            IN  /\ flock_sent' = r.sent
                /\ last' = Op("clock_changed", "-", "-", FALSE, clock, NoId,
                              "-", r.err)
    /\ UNCHANGED <<deviceVars, tripVars, udpVars, missionVars>>

NextFlock ==
    \/ \E d \in FlockDestinations : SendPacket(d)
    \/ \E clock \in {"mtc", "system"} : OnClockChanged(clock)

SpecFlock == Init /\ [][NextFlock]_vars

(***************************************************************************)
(* The flockctrl extension: the geofence of a generated mission            *)
(***************************************************************************)
\* how many items the trajectory of a show has, and how many control points
\* one item has
MaxItems == 2

MaxControls == 1

\* the default safety margin and rounding step of both limits
Margin == 20

Steps == 10

\* points of the inputs, in the coordinate system of the show
MissionCoords == {<<0, 0, 0>>, <<3, 4, 10>>, <<30, 40, 5>>}

MissionTypes == {"neu", "nwu", "ned", "nwd"}

SeqsUpTo(S, n) == UNION {[1..k -> S] : k \in 0..n}

\* the items of a trajectory: a waypoint and its Bezier control points
MissionItems ==
    [point : MissionCoords, control_points : SeqsUpTo(MissionCoords, MaxControls)]

\* the shows of the inputs: the type of the coordinate system and the points
\* of the trajectory
Shows == [type : MissionTypes, points : SeqsUpTo(MissionItems, MaxItems)]

\* to_neu
ToNeu(pos, type_string) ==
    IF type_string = "neu" THEN <<pos[1], pos[2], pos[3]>>
    ELSE IF type_string = "nwu" THEN <<pos[1], -pos[2], pos[3]>>
    ELSE IF type_string = "ned" THEN <<pos[1], pos[2], -pos[3]>>
    ELSE <<pos[1], -pos[2], -pos[3]>>

\* points = [(t, to_neu(point), map(to_neu, control_points)) ...]: every item
\* holds its waypoint and a map object; control_points is what the map
\* object has yet to yield
ConvertPoints(show) ==
    [i \in 1..Len(show.points) |->
        [point |-> ToNeu(show.points[i].point, show.type),
         control_points |->
             [j \in 1..Len(show.points[i].control_points) |->
                 ToNeu(show.points[i].control_points[j], show.type)]]]

RECURSIVE Yielded(_)
\* what get_all_points_from_trajectory yields: for every item what its map
\* object has left, then the waypoint
Yielded(points) ==
    IF points = <<>> THEN <<>>
    ELSE Head(points).control_points \o <<Head(points).point>>
             \o Yielded(Tail(points))

\* the trajectory after get_all_points_from_trajectory has run to its end:
\* every map object is exhausted
Exhausted(points) ==
    [i \in 1..Len(points) |-> [points[i] EXCEPT !.control_points = <<>>]]

MaxOf(S) == CHOOSE m \in S : \A k \in S : k <= m

\* int(ceil(value / steps)) * steps, for an integer value
RoundUp(value) == (-((-value) \div Steps)) * Steps

\* get_maximum_altitude_with_safety_margin
MaximumAltitude(points) ==
    LET all == Yielded(points)
        largest_z == IF all = <<>> THEN 0
                     ELSE MaxOf({all[i][3] : i \in 1..Len(all)})
    IN  RoundUp(largest_z + Margin)

Square(a) == a * a

\* int(ceil((hypot(dx, dy) + margin) / steps)) * steps for the largest
\* hypot(dx, dy), given the largest dx * dx + dy * dy: the smallest multiple
\* of steps that is at least the distance plus the margin
RoundUpDistance(max_square) ==
    LET fits(m) == m >= Margin /\ Square(m - Margin) >= max_square
        k == CHOOSE k \in 0..200 : /\ fits(k * Steps)
                                   /\ \A j \in 0..(k - 1) : ~fits(j * Steps)
    IN  k * Steps

\* get_maximum_distance_with_safety_margin
MaximumDistance(points) ==
    LET xys == Yielded(points)
        max_square == IF xys = <<>> THEN 0
                      ELSE MaxOf({Square(xys[1][1] - xys[i][1])
                                      + Square(xys[1][2] - xys[i][2]) :
                                  i \in 1..Len(xys)})
    IN  RoundUpDistance(max_square)

\* generate_mission_file_from_show_specification(show): the limits of the
\* geofence; the altitude is computed first, and the distance over what the
\* first walk has left of the trajectory
GenerateMission ==
    /\ mission_show # NoShow
    /\ last.op # "generate_mission"
    /\ LET points == ConvertPoints(mission_show)
       IN  /\ max_altitude' = MaximumAltitude(points)
           /\ max_distance' = MaximumDistance(Exhausted(points))
    /\ last' = Op("generate_mission", "-", "-", FALSE, "-", NoId, "-", "ok")
    /\ UNCHANGED mission_show
    /\ UNCHANGED <<deviceVars, tripVars, udpVars, flockVars>>

\* a show specification was received
InitShows ==
    /\ InitObjects
    /\ path_value = <<Slash>>
    /\ path_obj = NoPath
    /\ path_again = NoPath
    /\ traversal = <<>>
    /\ path_clone = NoPath
    /\ InitTrips
    /\ InitUdp(DefaultPoolSize)
    /\ InitFlock
    /\ mission_show \in Shows
    /\ max_altitude = -1
    /\ max_distance = -1

NextMission == GenerateMission

SpecMission == InitShows /\ [][NextMission]_vars

(***************************************************************************)
(* Properties of the subscription manager (checked under Spec)             *)
(***************************************************************************)
IsUnsubscribe(o, force) ==
    /\ o.op = "unsubscribe"
    /\ o.force = force
    /\ o.node # "-"

\* C1: k subscribe calls of a client on a node followed by k plain
\* unsubscribe calls leave its count there at 0, every one of these k
\* unsubscribe calls succeeds, and a further plain unsubscribe fails with
\* ClientNotSubscribedError. (subCalls and unsubCalls count the successful
\* calls, so a call made when they are equal must fail and a call made when
\* they differ must succeed.)
C1_BalancedUnsubscribe ==
    /\ \A n \in Nodes, c \in Clients :
          subCalls[n][c] = unsubCalls[n][c] => SubscriberCount(n, c) = 0
    /\ IsUnsubscribe(last, FALSE) =>
          \/ /\ last.err = "ok"
             /\ unsubCalls[last.node][last.client] <= subCalls[last.node][last.client]
          \/ /\ last.err = "ClientNotSubscribedError"
             /\ unsubCalls[last.node][last.client] = subCalls[last.node][last.client]

\* two subscribe calls, two unsubscribe calls, and the third unsubscribe failed
C1_Witness ==
    /\ IsUnsubscribe(last, FALSE)
    /\ last.err = "ClientNotSubscribedError"
    /\ subCalls[last.node][last.client] = 2
    /\ unsubCalls[last.node][last.client] = 2
    /\ SubscriberCount(last.node, last.client) = 0

\* C2: on every node and for every client the subscriber count is the number
\* of successful subscribe calls minus the number of successful plain
\* unsubscribe calls since the last forced removal of the client from the
\* node, and it is never negative.
C2_CountIsNetCalls ==
    \A n \in Nodes, c \in Clients :
        /\ SubscriberCount(n, c) = subCalls[n][c] - unsubCalls[n][c]
        /\ SubscriberCount(n, c) >= 0

C2_Witness ==
    \E n \in Nodes, c \in Clients :
        /\ subCalls[n][c] = 2
        /\ unsubCalls[n][c] = 1
        /\ SubscriberCount(n, c) = 1

\* C3: every entry present in the subscriber map of a node has a count > 0
\* (an entry that a plain unsubscribe brings to 0 is removed from the map).
C3_NoZeroEntries ==
    \A n \in Nodes :
        \A c \in DOMAIN subscribers[n].counter : subscribers[n].counter[c] > 0

\* C4: a forced unsubscribe on a path that resolves never fails and leaves
\* the count of the client on the node at 0, whatever it was before, and it
\* changes no subscriber map when the count was 0 already.
C4_ForcedUnsubscribe ==
    [][IsUnsubscribe(last', TRUE) =>
          /\ last'.err = "ok"
          /\ CountSubscriptionsOf(subscribers', last'.node, last'.client) = 0
          /\ (SubscriberCount(last'.node, last'.client) = 0
                 => subscribers' = subscribers)]_vars

\* a forced unsubscribe removed a client that was subscribed twice
C4_Witness ==
    /\ IsUnsubscribe(last, TRUE)
    /\ last.err = "ok"
    /\ last.count = 2
    /\ SubscriberCount(last.node, last.client) = 0

\* the handler _on_client_removed has just run for last.client
Purged ==
    /\ last.op = "client_removed"
    /\ last.reg \in client_conn

\* C5: right after the purge of a client, the client has count 0 on every
\* node reachable from the root and list_subscriptions(client, None) returns
\* an empty mapping.
C5_PurgeLeavesNothing ==
    Purged =>
        /\ \A n \in Attached : SubscriberCount(n, last.client) = 0
        /\ ListSubscriptions(subscribers, children, hasChildren, last.client, NoFilter)
              = [err |-> "ok", result |-> EmptyBag]

\* the purge removed the client from at least two nodes, one of them below
\* the root
C5_Witness ==
    /\ Purged
    /\ last.count >= 2
    /\ "lat1" \in Attached
    /\ subscribers["lat1"].isNone = FALSE

\* C6: when the bound client registry emits removed for a client, the count
\* of every other client on every node and the shape of the tree stay as
\* they were.
C6_PurgeFrame ==
    [][(last'.op = "client_removed" /\ last'.reg \in client_conn) =>
          /\ children' = children
          /\ hasChildren' = hasChildren
          /\ \A n \in Nodes, d \in Clients \ {last'.client} :
                CountSubscriptionsOf(subscribers', n, d) = SubscriberCount(n, d)]_vars

\* a client was purged from a node on which another client stays subscribed
C6_Witness ==
    /\ Purged
    /\ last.count >= 1
    /\ \E n \in Attached, d \in Clients \ {last.client} :
          /\ SubscriberCount(n, d) > 0
          /\ last.client \notin DOMAIN subscribers[n].counter

(***************************************************************************)
(* Properties of the registry wiring (checked under SpecWiring)            *)
(***************************************************************************)
RootChildIds ==
    LET items == IterChildren(children, hasChildren, "root")
    IN  {items[i].id : i \in DOMAIN items}

PathOfId(id) == <<Slash>> \o id

\* the paths of the nodes that the subtree of a vehicle may hold
SubtreePaths(id) ==
    {PathOfId(id), PathOfId(id) \o <<Slash, "g">>,
     PathOfId(id) \o <<Slash, "g", Slash, "l">>}

ResolveNow(path) == Resolve(children, hasChildren, path)

\* the registry that last names has sent added (removed) to the tree
AddedDelivered(o) ==
    /\ o.op = "uav_add"
    /\ o.reg \in added_conn
    /\ o.err # "KeyError"

RemovedDelivered(o) ==
    /\ o.op = "uav_remove"
    /\ o.reg \in removed_conn
    /\ o.err # "KeyError"

\* C7 as stated: whenever a registry is bound, the child ids of the root are
\* the vehicle ids of that registry.
C7_MirrorsRegistry ==
    uav_registry # "None" => RootChildIds = DOMAIN entries[uav_registry]

\* C7, amended: an add or remove of the registry that is and stays bound
\* keeps the child ids of the root equal to the vehicle ids of the registry
\* when they were equal before the operation, whether the operation succeeds
\* or fails.
C7_LockstepPreserved ==
    [][(/\ last'.op \in {"uav_add", "uav_remove"}
        /\ uav_registry # "None"
        /\ RootChildIds = DOMAIN entries[uav_registry])
         => LET items == IterChildren(children', hasChildren', "root")
            IN  {items[i].id : i \in DOMAIN items} = DOMAIN entries'[uav_registry]]_vars

\* a vehicle was removed from the bound registry, another one stays, and the
\* root mirrors the registry
C7_Witness ==
    /\ uav_registry = "R1"
    /\ RemovedDelivered(last)
    /\ last.err = "ok"
    /\ RootChildIds = DOMAIN entries["R1"]
    /\ RootChildIds # {}

\* what C8 says of the removed event: the path of the vehicle and the paths
\* inside its subtree no longer resolve
RemovedThenUnresolvable ==
    (RemovedDelivered(last) /\ "root" \in hasChildren) =>
        \A p \in SubtreePaths(last.id) : ResolveNow(p).err = "NoSuchPathError"

\* C8 as stated: after the bound registry emits added for a vehicle, its path
\* resolves to the node of that vehicle; after it emits removed, the path
\* and the paths inside the subtree fail with NoSuchPathError.
C8_AddedThenResolves ==
    /\ AddedDelivered(last) =>
          ResolveNow(PathOfId(last.id)) = [err |-> "ok", node |-> last.node]
    /\ RemovedThenUnresolvable

\* C8, amended: the path resolves to the node of the vehicle when the added
\* handler attached it; when the root already had a child with that id the
\* handler fails with ValueError and the path still resolves (to the child
\* that was there).
C8_AttachedThenResolves ==
    /\ (AddedDelivered(last) /\ last.err = "ok") =>
          ResolveNow(PathOfId(last.id)) = [err |-> "ok", node |-> last.node]
    /\ (AddedDelivered(last) /\ last.err # "ok") =>
          /\ last.err = "ValueError"
          /\ ResolveNow(PathOfId(last.id)).err = "ok"
    /\ RemovedThenUnresolvable

\* the vehicle u1, with its subtree, was removed after it had been attached
C8_Witness ==
    /\ RemovedDelivered(last)
    /\ last.err = "ok"
    /\ last.uav = "u1"
    /\ ResolveNow(PathAGL).err = "NoSuchPathError"
    /\ \E i \in DOMAIN children["root"] : children["root"][i].node = "uav2"

\* C9: attaching a node under the root with an id that the root already has
\* fails with ValueError and leaves the children of the root as they were;
\* with a new id it succeeds, the id resolves to the node, and the ids that
\* were attached before resolve as before.
C9_AttachUnderRoot ==
    [][last'.op = "add_child" =>
          IF last'.id \in RootChildIds
          THEN /\ last'.err = "ValueError"
               /\ children' = children
          ELSE /\ last'.err = "ok"
               /\ Resolve(children', hasChildren', PathOfId(last'.id))
                     = [err |-> "ok", node |-> last'.node]
               /\ \A i \in RootChildIds :
                     Resolve(children', hasChildren', PathOfId(i))
                        = ResolveNow(PathOfId(i))]_vars

\* two ids are attached and a node other than the attached one was refused
\* under one of them
C9_Witness ==
    /\ last.op = "add_child"
    /\ last.err = "ValueError"
    /\ Cardinality(RootChildIds) = 2
    /\ ResolveNow(PathOfId(last.id)).err = "ok"
    /\ ResolveNow(PathOfId(last.id)).node # last.node

\* C10: UAVRegistry.add of the UAV object that is registered under its id
\* already changes neither the registry nor the tree and raises no error.
C10_ReAddIsNoOp ==
    [][(/\ last'.op = "uav_add"
        /\ last'.id \in DOMAIN entries[last'.reg]
        /\ entries[last'.reg][last'.id] = last'.uav)
         => /\ entries' = entries
            /\ children' = children
            /\ hasChildren' = hasChildren
            /\ last'.err = "ok"]_vars

\* C11: UAVRegistry.remove and remove_by_id of an id that is not registered
\* are no-ops: no error is raised, the registry and the bound tree stay as
\* they are (no removed event reaches the tree).
C11_RemoveUnknownIsNoOp ==
    [][(/\ last'.op = "uav_remove"
        /\ last'.id \notin DOMAIN entries[last'.reg])
         => /\ last'.err = "ok"
            /\ entries' = entries
            /\ children' = children
            /\ hasChildren' = hasChildren]_vars

\* C12: UAVRegistry.add of a UAV whose id is registered for a different
\* object fails with KeyError; the registry keeps the original object, and
\* the bound tree is unchanged (no added event reaches it).
C12_AddOfTakenIdFails ==
    [][(/\ last'.op = "uav_add"
        /\ last'.id \in DOMAIN entries[last'.reg]
        /\ entries[last'.reg][last'.id] # last'.uav)
         => /\ last'.err = "KeyError"
            /\ entries' = entries
            /\ children' = children
            /\ hasChildren' = hasChildren]_vars

\* a UAV was refused by a registry that the tree listens to, because another
\* object holds its id, and that other object is the one attached
C12_Witness ==
    /\ last.op = "uav_add"
    /\ last.err = "KeyError"
    /\ last.reg \in added_conn
    /\ last.id \in DOMAIN entries[last.reg]
    /\ entries[last.reg][last.id] # last.uav
    /\ ResolveNow(PathOfId(last.id))
          = [err |-> "ok", node |-> UAVDeviceTreeNode(entries[last.reg][last.id])]

(***************************************************************************)
(* Listing subscriptions                                                   *)
(***************************************************************************)
RECURSIVE PrefixedSegments(_)
PrefixedSegments(segs) ==
    IF segs = <<>> THEN <<>>
    ELSE <<Slash>> \o Head(segs) \o PrefixedSegments(Tail(segs))

\* the canonical string that the claims give to a path with these segments:
\* "/" for the root, and every segment prefixed with "/" otherwise
CanonicalString(segs) ==
    IF segs = <<>> THEN <<Slash>> ELSE PrefixedSegments(segs)

\* the segment sequences that may lead to a node of the tree
SegmentPaths ==
    {<<>>, << <<"a">> >>, << <<"a">>, <<"g">> >>,
     << <<"a">>, <<"g">>, <<"l">> >>, << <<"b">> >>}

NodeAt(segs) == ResolveFrom(children, hasChildren, "root", segs)

\* the number of filters whose subtree contains the node at segs
MatchCount(segs, filters) ==
    Cardinality({i \in DOMAIN filters :
        /\ ResolveNow(filters[i]).err = "ok"
        /\ NodeAt(segs).node \in
              Descendants(children, hasChildren, ResolveNow(filters[i]).node)})

\* the listing that the claims describe: one entry per subscribed node
\* inside the filtered subtrees, under its canonical string
ExpectedListing(c, filters) ==
    LET hit == {p \in SegmentPaths :
                   /\ NodeAt(p).err = "ok"
                   /\ SubscriberCount(NodeAt(p).node, c) > 0
                   /\ MatchCount(p, filters) > 0}
    IN  [k \in {CanonicalString(p) : p \in hit} |->
            LET p == CHOOSE q \in hit : CanonicalString(q) = k
            IN  SubscriberCount(NodeAt(p).node, c) * MatchCount(p, filters)]

ListNow(c, filters) ==
    ListSubscriptions(subscribers, children, hasChildren, c, filters)

SingleFilters == {<<PathRoot>>, <<PathA>>, <<PathAG>>, <<PathAGL>>}

SeveralFilters ==
    {<<PathRoot, PathA>>, <<PathA, PathA>>, <<PathA, PathAGL>>,
     <<PathAGL, PathAG, PathRoot>>}

\* C13: for a single filter that resolves, list_subscriptions returns one
\* entry per node of the filter's subtree on which the client has a positive
\* count, keyed by the canonical path of the node and valued with the count,
\* and nothing else.
C13_ListSingleFilter ==
    \A c \in Clients, f \in SingleFilters :
        ResolveNow(f[1]).err = "ok"
            => ListNow(c, f) = [err |-> "ok", result |-> ExpectedListing(c, f)]

\* C14: with several filters the value under a node's canonical path is the
\* client's count on the node times the number of filters whose subtree
\* contains the node.
C14_ListSeveralFilters ==
    \A c \in Clients, f \in SeveralFilters :
        (\A i \in DOMAIN f : ResolveNow(f[i]).err = "ok")
            => ListNow(c, f) = [err |-> "ok", result |-> ExpectedListing(c, f)]

\* C15: a positive count of the client on the root is listed under the key
\* "/", both without a filter and with the filter "/".
C15_RootListedAsSlash ==
    \A c \in Clients :
        SubscriberCount("root", c) > 0
            => \A f \in {NoFilter, RootFilter} :
                  /\ ListNow(c, f).err = "ok"
                  /\ BagIn(<<Slash>>, ListNow(c, f).result)
                  /\ CopiesIn(<<Slash>>, ListNow(c, f).result)
                        = SubscriberCount("root", c)

(***************************************************************************)
(* Path syntax                                                             *)
(***************************************************************************)
\* C16: the path parsed from "/" has no segments and the string "/"; the
\* string of every other path is its segments, each prefixed with "/".
C16_CanonicalString ==
    path_obj.err = "ok"
        => /\ path_value = PathRoot
                => /\ IterParts(path_obj.parts) = <<>>
                   /\ PathString(path_obj.parts) = <<Slash>>
           /\ IterParts(path_obj.parts) # <<>>
                => PathString(path_obj.parts)
                      = CanonicalString(IterParts(path_obj.parts))

\* the strings that the claims call malformed: not starting with "/" (the
\* empty string included) or containing "//"
Malformed(s) ==
    \/ s = <<>>
    \/ s[1] # Slash
    \/ \E i \in 1..(Len(s) - 1) : s[i] = Slash /\ s[i + 1] = Slash

\* C17: the constructor fails for exactly the malformed strings.
C17_RejectsExactlyMalformed ==
    path_obj # NoPath => (path_obj.err = "ValueError" <=> Malformed(path_value))

\* C18: a single trailing "/" is stripped: for a valid string s that does not
\* end in "/", the path of s with "/" appended has the segments and the string
\* of the path of s, and both resolve to the same node.
C18_TrailingSlashStripped ==
    (/\ path_obj.err = "ok"
     /\ (path_value = <<>> \/ path_value[Len(path_value)] # Slash))
        => LET t == ParsePath(path_value \o <<Slash>>)
           IN  /\ t.err = "ok"
               /\ IterParts(t.parts) = IterParts(path_obj.parts)
               /\ PathString(t.parts) = PathString(path_obj.parts)
               /\ ResolveNow(path_value \o <<Slash>>) = ResolveNow(path_value)

\* "/a/g" was parsed while it denotes the device below the attached UAV
C18_Witness ==
    /\ path_value = PathAG
    /\ path_obj.err = "ok"
    /\ IterParts(path_obj.parts) = << <<"a">>, <<"g">> >>
    /\ ResolveNow(PathAG) = [err |-> "ok", node |-> "gps1"]

\* C19: parsing the string of a path that was parsed from a valid string
\* succeeds and gives the same segments and the same string.
C19_RoundTrip ==
    (path_obj.err = "ok" /\ path_again # NoPath)
        => /\ path_again.err = "ok"
           /\ IterParts(path_again.parts) = IterParts(path_obj.parts)
           /\ PathString(path_again.parts) = PathString(path_obj.parts)

\* the path of "/" went through the round trip
C19_Witness ==
    /\ path_value = PathRoot
    /\ path_obj.err = "ok"
    /\ path_again.err = "ok"
    /\ IterParts(path_again.parts) = <<>>

(***************************************************************************)
(* Paths that denote no node                                               *)
(***************************************************************************)
\* C20: subscribe, unsubscribe (forced or not) and list_subscriptions with a
\* well-formed path for which no node was found fail with NoSuchPathError
\* and leave the subscriptions and the tree as they are.  (Every path of
\* ResolveInputs is well-formed, and last'.node is "-" exactly when the
\* resolve step of the operation found no node.)
C20_UnresolvedIsNoSuchPath ==
    [][(/\ last'.op \in {"subscribe", "unsubscribe", "list"}
        /\ last'.node = "-")
         => /\ last'.err = "NoSuchPathError"
            /\ subscribers' = subscribers
            /\ children' = children
            /\ hasChildren' = hasChildren]_vars

(***************************************************************************)
(* Frames of subscribe and unsubscribe                                     *)
(***************************************************************************)
\* C21: a non-forced unsubscribe that fails because the client is not
\* subscribed changes nothing: the subscriber maps of all nodes, the entry of
\* the client on the node included, and the tree stay as they were.
C21_FailedUnsubscribeFrame ==
    [][(/\ last'.op = "unsubscribe"
        /\ ~last'.force
        /\ last'.err = "ClientNotSubscribedError")
         => /\ subscribers' = subscribers
            /\ children' = children
            /\ hasChildren' = hasChildren]_vars

\* A was refused on the UAV node while B is subscribed to that node
C21_Witness ==
    /\ last.op = "unsubscribe"
    /\ ~last.force
    /\ last.err = "ClientNotSubscribedError"
    /\ last.client = "A"
    /\ last.node = "uav1"
    /\ SubscriberCount("uav1", "B") > 0
    /\ SubscriberCount("uav1", "A") = 0

\* C27: a successful subscribe raises the count of the client on the node of
\* the path by one and changes no other count of any client on any node, nor
\* the tree.
C27_SubscribeFrame ==
    [][(last'.op = "subscribe" /\ last'.err = "ok")
         => /\ CountSubscriptionsOf(subscribers', last'.node, last'.client)
                  = SubscriberCount(last'.node, last'.client) + 1
            /\ \A n \in Nodes, c \in Clients :
                  (n # last'.node \/ c # last'.client)
                     => CountSubscriptionsOf(subscribers', n, c)
                           = SubscriberCount(n, c)
            /\ children' = children
            /\ hasChildren' = hasChildren]_vars

\* A subscribed to the UAV node while holding a subscription on the root
C27_Witness ==
    /\ last.op = "subscribe"
    /\ last.err = "ok"
    /\ last.client = "A"
    /\ last.node = "uav1"
    /\ SubscriberCount("uav1", "A") = 1
    /\ SubscriberCount("root", "A") = 1

(***************************************************************************)
(* Binding and unbinding the registries                                    *)
(***************************************************************************)
\* C22: while a registry is bound, the events of every other registry, a
\* formerly bound one included, change neither the tree nor the
\* subscriptions; the events of the bound registry run the handlers; and
\* binding the registry that is bound already changes nothing of the wiring.
C22_RebindMovesListeners ==
    [][/\ (/\ last'.op \in {"uav_add", "uav_remove"}
           /\ uav_registry # "None"
           /\ last'.reg # uav_registry)
            => (children' = children /\ hasChildren' = hasChildren)
       /\ (/\ last'.op = "uav_add"
           /\ last'.reg = uav_registry
           /\ RegistryAdd(entries[last'.reg], last'.uav).send)
            => children' = OnUAVAdded(children, hasChildren, last'.uav).ch
       /\ (/\ last'.op = "uav_remove"
           /\ last'.reg = uav_registry
           /\ RegistryRemoveById(entries[last'.reg], last'.id).send)
            => children' = OnUAVRemoved(children, hasChildren, last'.uav).ch
       /\ (/\ last'.op = "client_removed"
           /\ client_registry # "None"
           /\ last'.reg # client_registry)
            => subscribers' = subscribers
       /\ (last'.op = "client_removed" /\ last'.reg = client_registry)
            => subscribers' = OnClientRemoved(subscribers, children,
                                              hasChildren, last'.client)
       /\ (/\ last'.op = "set_uav_registry"
           /\ last'.reg # "None"
           /\ last'.reg = uav_registry)
            => (last'.err = "ok" /\ UNCHANGED wiringVars)
       /\ (/\ last'.op = "set_client_registry"
           /\ last'.reg # "None"
           /\ last'.reg = client_registry)
            => (last'.err = "ok" /\ UNCHANGED wiringVars)]_vars

\* R1 attached its UAV while it was bound; R2 is bound now and has attached
\* its UAV, and the removal of the UAV of R1 left the node of that UAV in
\* the tree
C22_Witness ==
    /\ last.op = "uav_remove"
    /\ last.reg = "R1"
    /\ last.err = "ok"
    /\ uav_registry = "R2"
    /\ added_conn = {"R2"}
    /\ ResolveNow(PathA) = [err |-> "ok", node |-> "uav1"]
    /\ ResolveNow(PathB) = [err |-> "ok", node |-> "uav2"]

\* C23: while no registry is bound, the events of every registry, a formerly
\* bound one included, change neither the tree nor the subscriptions; and
\* unbinding while nothing is bound changes nothing and does not fail.
C23_UnbindDetaches ==
    [][/\ (last'.op \in {"uav_add", "uav_remove"} /\ uav_registry = "None")
            => (children' = children /\ hasChildren' = hasChildren)
       /\ (last'.op = "client_removed" /\ client_registry = "None")
            => subscribers' = subscribers
       /\ (/\ last'.op = "set_uav_registry"
           /\ last'.reg = "None"
           /\ uav_registry = "None")
            => (last'.err = "ok" /\ UNCHANGED wiringVars)
       /\ (/\ last'.op = "set_client_registry"
           /\ last'.reg = "None"
           /\ client_registry = "None")
            => (last'.err = "ok" /\ UNCHANGED wiringVars)]_vars

\* the UAV that R1 attached while it was bound was removed from R1 after the
\* tree was unbound and is still in the tree; the client registry is unbound
\* too and A still holds its subscription
C23_Witness ==
    /\ last.op = "uav_remove"
    /\ last.reg = "R1"
    /\ last.err = "ok"
    /\ uav_registry = "None"
    /\ added_conn = {}
    /\ client_registry = "None"
    /\ client_conn = {}
    /\ ResolveNow(PathA) = [err |-> "ok", node |-> "uav1"]
    /\ SubscriberCount("root", "A") > 0

\* C24: the removed handlers never fail: whenever a registry drops a
\* registered UAV while the tree listens to it, or drops a client, the
\* operation ends without an error.
C24_RemovedHandlersNeverFail ==
    [][/\ (/\ last'.op = "uav_remove"
           /\ last'.reg \in removed_conn
           /\ last'.id \in DOMAIN entries[last'.reg])
            => last'.err = "ok"
       /\ last'.op = "client_removed" => last'.err = "ok"]_vars

(***************************************************************************)
(* Structure of the tree                                                   *)
(***************************************************************************)
\* C25: removing a child of the root, by id, by node or through the
\* vehicle-removed handler, changes no subscriber map: the nodes of the
\* detached subtree and the nodes that stay keep their counts.
C25_RemovalKeepsSubscriptions ==
    [][last'.op \in {"remove_child", "remove_child_by_id", "uav_remove"}
          => subscribers' = subscribers]_vars

\* the first UAV was detached by id while A was subscribed to its channel and
\* to the root, and both counts are still there
C25_Witness ==
    /\ last.op = "remove_child_by_id"
    /\ last.err = "ok"
    /\ last.node = "uav1"
    /\ "lat1" \notin Attached
    /\ SubscriberCount("lat1", "A") > 0
    /\ SubscriberCount("root", "A") > 0

RECURSIVE PreOrder(_, _, _)
RECURSIVE PreOrderOfChildren(_, _)
\* the pre-order walk from n; the children of every node are taken in the
\* order of insertion, or in the reverse of it when rev is TRUE
PreOrder(n, id, rev) ==
    << [id |-> id, node |-> n] >>
       \o PreOrderOfChildren(IterChildren(children, hasChildren, n), rev)

PreOrderOfChildren(items, rev) ==
    IF items = <<>> THEN <<>>
    ELSE IF rev
    THEN PreOrder(items[Len(items)].node, items[Len(items)].id, rev)
            \o PreOrderOfChildren(SubSeq(items, 1, Len(items) - 1), rev)
    ELSE PreOrder(Head(items).node, Head(items).id, rev)
            \o PreOrderOfChildren(Tail(items), rev)

C28_RemoveChild ==
    [][/\ (/\ last'.op = "remove_child_by_id"
           /\ last'.id \notin ChildIds(children, "root"))
            => (last'.err = "ValueError" /\ children' = children)
       /\ (/\ last'.op = "remove_child"
           /\ \A i \in DOMAIN children["root"] :
                  children["root"][i].node # last'.node)
            => (last'.err = "ValueError" /\ children' = children)
       /\ (/\ last'.op = "remove_child_by_id"
           /\ last'.id \in ChildIds(children, "root"))
            => /\ last'.err = "ok"
               /\ last'.node = ChildOf(children, "root", last'.id)
               /\ children' = [children EXCEPT !["root"] =
                                  SelectSeq(@, LAMBDA e : e.id # last'.id)]
       /\ (/\ last'.op = "remove_child"
           /\ \E i \in DOMAIN children["root"] :
                  children["root"][i].node = last'.node)
            => /\ last'.err = "ok"
               /\ children' = [children EXCEPT !["root"] =
                                  SelectSeq(@, LAMBDA e : e.node # last'.node)]]_vars

\* C29: _add_child on a channel fails with NotSupported, and no channel has
\* a child in any state.
C29_ChannelsHaveNoChildren ==
    /\ \A n \in Nodes :
          NodeType(n) = "channel" => IterChildren(children, hasChildren, n) = <<>>
    /\ (last.op = "_add_child" /\ NodeType(last.node) = "channel")
          => last.err = "NotSupported"

\* C30: a traversal yields every node of the subtree of the node it starts
\* from exactly once, and the traversal that the purge of a client uses
\* yields every node that can be reached from the root.
C30_TraversalCoversSubtree ==
    /\ last.op = "traverse"
          => /\ {traversal[i].node : i \in DOMAIN traversal}
                   = Descendants(children, hasChildren, last.node)
             /\ \A i, j \in DOMAIN traversal :
                   traversal[i].node = traversal[j].node => i = j
    /\ LET t == TreeTraverseDfs(children, hasChildren)
       IN  /\ {t[i].node : i \in DOMAIN t} = Attached
           /\ Len(t) = Cardinality(Attached)

\* the traversal from the root went over both UAVs, the device, the channel
\* and the node below the channel
C30_Witness ==
    /\ last.op = "traverse"
    /\ last.node = "root"
    /\ Len(traversal) = 6
    /\ Attached = Nodes

(***************************************************************************)
(* Listing is read-only                                                    *)
(***************************************************************************)
\* C31: list_subscriptions changes no subscriber map and not the tree, a
\* DeviceTreePath given as a filter has the parts it had before, and the copy
\* that the walk appends to and pops from ends with the parts of the filter.
C31_ListIsReadOnly ==
    [][last'.op \in {"list", "list_path"}
          => /\ subscribers' = subscribers
             /\ children' = children
             /\ hasChildren' = hasChildren
             /\ path_obj' = path_obj
             /\ (last'.op = "list_path" /\ last'.err = "ok")
                   => path_clone'.parts = path_obj.parts]_vars

\* the subscriptions of A were listed below the path object "/a" while A was
\* subscribed to the channel three levels down
C31_Witness ==
    /\ last.op = "list_path"
    /\ last.err = "ok"
    /\ last.node = "uav1"
    /\ path_obj.parts = << <<>>, <<"a">> >>
    /\ path_clone.parts = path_obj.parts
    /\ SubscriberCount("lat1", "A") > 0

(***************************************************************************)
(* Purged clients stay purged                                              *)
(***************************************************************************)
\* C32, for the step that follows the purge: when the bound client registry
\* has just removed a client, the next operation, unless it is a subscribe
\* call of that client, leaves no node under the root with a positive
\* count of the client - also when it adds a UAV again that was detached
\* during the purge.
C32_PurgedStaysPurged ==
    [][(/\ last.op = "client_removed"
        /\ last.reg \in client_conn
        /\ ~(last'.op = "subscribe" /\ last'.client = last.client))
         => \A n \in Descendants(children', hasChildren', "root") :
               CountSubscriptionsOf(subscribers', n, last.client) = 0]_vars

(***************************************************************************)
(* UAVRegistry.use                                                         *)
(***************************************************************************)
\* C33: when the context of use() is left, normally or with an error, the
\* registry holds exactly the entries that it held when the context was
\* entered.
C33_UseIsTemporary ==
    [][last'.op = "uav_use" => entries'[last'.reg] = entries[last'.reg]]_vars


(***************************************************************************)
(* Trips (checked under SpecTrips)                                         *)
(***************************************************************************)
\* the steps that the status of one Trip object may take
StatusSteps == {<<"none", "NEW">>, <<"NEW", "UPLOADING">>,
                <<"UPLOADING", "UPLOADED">>, <<"UPLOADING", "ERROR">>}

\* C34: the status of a trip only moves NEW -> UPLOADING -> UPLOADED or
\* ERROR; send_command is called for a trip only while its status is
\* UPLOADING, which upload_trip_to_uav has set for a trip that was NEW; when
\* upload_trip_to_uav returns after having started an upload the status of
\* its trip is UPLOADED or ERROR; send_command is called at most once for one
\* Trip object.
C34_StatusLifecycle ==
    [][ /\ \A t \in TripIds :
              /\ trip_status'[t] # trip_status[t]
                     => <<trip_status[t], trip_status'[t]>> \in StatusSteps
              /\ send_calls'[t] # send_calls[t]
                     => /\ trip_status[t] = "UPLOADING"
                        /\ send_calls[t] = 0
                        /\ send_calls'[t] = 1
        /\ upload_pc' = "begun"
               => /\ upload_pc = "idle"
                  /\ trip_status[upload_trip'] = "NEW"
                  /\ trip_status'[upload_trip'] = "UPLOADING"
        /\ (upload_pc \in {"begun", "awaiting"} /\ upload_pc' = "idle")
               => trip_status'[upload_trip] \in {"UPLOADED", "ERROR"} ]_vars

\* the queue held the id of one UAV twice, its trip was uploaded when the id
\* was received first, and the second upload_trip_to_uav has returned early
C34_Witness ==
    /\ last.op = "upload"
    /\ last.err = "not_new"
    /\ \E t \in TripIds : trip_status[t] = "UPLOADED" /\ send_calls[t] = 1
    /\ \E t \in TripIds : trip_status[t] = "ERROR"

\* C35: send_command is never called for a trip that was cancelled while its
\* status was NEW, as every trip is whose UAV id is still in the queue, and
\* such a trip stays NEW; X-TRIP-CANCEL for a UAV that has no scheduled trip
\* is rejected and changes neither the scheduled trips nor the status of any
\* trip.
C35_CancelledNeverUploaded ==
    [][ /\ \A t \in cancelled_new' :
              send_calls'[t] = 0 /\ trip_status'[t] = "NEW"
        /\ (last'.op = "X-TRIP-CANCEL" /\ trips[last'.uav] = 0)
               => /\ last'.err = "rejected"
                  /\ trips' = trips
                  /\ trip_status' = trip_status ]_vars

\* a trip was cancelled while its UAV id was in the queue, and the id has
\* now been received: upload_trip_to_uav found no trip
C35_Witness ==
    /\ last.op = "upload"
    /\ last.err = "no_trip"
    /\ cancelled_new # {}
    /\ \A t \in cancelled_new : send_calls[t] = 0

\* C36: the status of a trip is UPLOADED only if the response of
\* send_command had an entry for the UAV of the trip.
C36_UploadedOnlyIfResponded ==
    \A t \in TripIds : trip_status[t] = "UPLOADED" => t \in responded


(***************************************************************************)
(* The udp extension (checked under SpecUdpLive and SpecUdp)               *)
(***************************************************************************)
InHandleMessage == {h \in Handlers : udp_handlers[h] = "running"}

GotSlot(h) == udp_handlers[h] \in {"running"} \cup HandleOutcomes

\* C37: at most pool_size handlers are in handle_message at any time; a
\* handler waits only while pool_size handlers are in handle_message; and,
\* the handlers that run finishing, every handler that was started gets into
\* handle_message, unless the receive loop has ended.
C37_PoolLimit ==
    /\ [](/\ Cardinality(InHandleMessage) <= pool_size
          /\ InHandleMessage = limit_borrowers
          /\ (limit_waiting # <<>> /\ udp_loop = "running")
                 => Cardinality(InHandleMessage) = pool_size)
    /\ \A h \in Handlers :
          (udp_handlers[h] \in {"started", "waiting"})
              ~> (GotSlot(h) \/ udp_loop = "stopped")

\* more datagrams than the pool has slots were received, the pool is full
\* and a handler that had to wait has got the slot of one that finished
C37_Witness ==
    /\ Cardinality(InHandleMessage) = pool_size
    /\ limit_waiting # <<>>
    /\ last.op = "finish"
    /\ \E h \in InHandleMessage : \E k \in Handlers :
          /\ k > h
          /\ udp_handlers[k] \in HandleOutcomes

\* C38: when handle_message ends with the ValueError of a malformed message
\* or with an Exception, the handler gives its slot back, the receive loop
\* keeps running, and the handlers that wait or come later can still run.
C38_ExceptionsContained ==
    [][ (last'.op = "finish" /\ last'.err \in {"malformed", "Exception"})
            => /\ last'.count \notin limit_borrowers'
               /\ udp_loop' = "running"
               /\ Cardinality(limit_borrowers') <= pool_size
               /\ (limit_waiting # <<>>
                      => udp_handlers'[Head(limit_waiting)] = "running") ]_vars

\* a datagram was handled after the handling of an earlier one had raised an
\* Exception and that of another one had met malformed JSON
C38_Witness ==
    /\ last.op = "finish"
    /\ last.err = "handled"
    /\ \E h \in Handlers : h < last.count /\ udp_handlers[h] = "Exception"
    /\ \E h \in Handlers : h < last.count /\ udp_handlers[h] = "malformed"
    /\ udp_loop = "running"


(***************************************************************************)
(* send_packet (checked under SpecFlock)                                   *)
(***************************************************************************)
\* C39: send_packet with the destination None, as the handler of the "mtc"
\* clock calls it, has the communicator send the packet with the address
\* None, as a broadcast; with ("wireless", address) it has the communicator
\* send the packet to the address; with another medium it fails with
\* ValueError and nothing is sent.
C39_SendPacketDestinations ==
    [][ /\ \A d \in FlockDestinations : SendPacket(d) =>
              IF d.kind = "None"
              THEN /\ last'.err = "ok"
                   /\ flock_sent' = Append(flock_sent, [packet |-> "packet",
                                                        address |-> "None"])
              ELSE IF d.medium = "wireless"
              THEN /\ last'.err = "ok"
                   /\ flock_sent' = Append(flock_sent, [packet |-> "packet",
                                                        address |-> d.address])
              ELSE /\ last'.err = "ValueError"
                   /\ flock_sent' = flock_sent
        /\ OnClockChanged("mtc") =>
              /\ last'.err = "ok"
              /\ flock_sent' = Append(flock_sent, [packet |-> "clock_sync",
                                                   address |-> "None"]) ]_vars

(***************************************************************************)
(* The geofence of a mission (checked under SpecMission)                   *)
(***************************************************************************)
\* C40: the distance limit of a generated mission is the limit over all the
\* points of the trajectory, the control points included, as the altitude
\* limit is.
C40_SamePointsForBothLimits ==
    last.op = "generate_mission" =>
        /\ max_altitude = MaximumAltitude(ConvertPoints(mission_show))
        /\ max_distance = MaximumDistance(ConvertPoints(mission_show))

====
